---- MODULE Spec2Model ----
(***************************************************************************)
(* Verification model of the coderAI agent-orchestration core:             *)
(*   - the workflow execution engine   (src/framework/flow/workflow.py)    *)
(*   - the completion dispatcher       (src/framework/core.py)             *)
(*   - the tool schema builder         (src/framework/util.py)             *)
(***************************************************************************)
EXTENDS Integers, Sequences, FiniteSets, TLC

(***************************************************************************)
(* Bounds of the model.                                                    *)
(***************************************************************************)
\* largest number of dependency ids one step declares
MaxDeps == 2
\* largest number of execute() calls made on one workflow
MaxExecutes == 2
\* largest number of characters around the core of an exception message
MaxPad == 1
\* largest number of parameters of a callable given to function_to_json
MaxParams == 2
\* largest number of tool calls of one assistant message
MaxCalls == 2
\* largest number of segments (prose or fenced block) of one text
MaxBlocks == 2
\* largest number of messages of a list built from the core messages
MaxMsgs == 2
\* largest number of conversions applied to one message list
MaxOps == 2
\* largest number of registrations made on the registries
MaxRegs == 3
\* largest number of functions of the agent given to run
MaxFunctions == 2
\* deepest nesting of object schemas inside the parameters of a tool
MaxNesting == 2
\* largest number of tools of a list given to adapt_tools_for_gemini
MaxTools == 2
\* largest number of requests get_chat_completion sends for one history
MaxDispatches == 2
\* largest number of coroutines started on the CollaborationService
MaxTasks == 4

(***************************************************************************)
(* Workflow engine: values.                                                *)
(***************************************************************************)
\* step ids, named in the order in which the caller first inserts them
IdSeq == <<"s1", "s2", "s3">>
StepIds == {IdSeq[i] : i \in 1..Len(IdSeq)}

\* Python's None
Null == [none |-> TRUE]

\* WorkflowStepStatus
PENDING == "pending"
RUNNING == "running"
COMPLETED == "completed"
FAILED == "failed"
SKIPPED == "skipped"
WorkflowStepStatus == {PENDING, RUNNING, COMPLETED, FAILED, SKIPPED}

\* WorkflowStatus
CANCELLED == "cancelled"
PAUSED == "paused"
WorkflowStatus == {PENDING, RUNNING, COMPLETED, FAILED, CANCELLED, PAUSED}

Range(q) == {q[i] : i \in 1..Len(q)}

VARIABLES
    order,        \* keys of Workflow.steps, in dict (insertion) order
    deps,         \* WorkflowStep.dependencies of each step
    fnRaises,     \* WorkflowStep.function: TRUE when the function raises
    stepStatus,   \* WorkflowStep.status
    stepResult,   \* WorkflowStep.result
    started,      \* WorkflowStep.started_at is set
    wfStatus,     \* Workflow.status
    context,      \* Workflow.context
    pc,           \* position of the caller in Workflow.execute
    readySteps,   \* ready_steps, the batch the for loop of execute is running
    idx,          \* position of the for loop in ready_steps (0: not in the loop)
    returned,     \* value returned by the last execute that returned
    seenCtx,      \* context each step function received when it was invoked
    readyLog,     \* steps get_ready_steps has returned since construction or reset()
    nExec,        \* execute() calls made so far
    sinceReset,   \* execute() calls that returned since construction or reset()
    prevRun,      \* outcome of the workflow at the moment of the last reset()
    batches       \* non-empty ready sets the while loop of this execute() got

wfVars == <<order, deps, fnRaises, stepStatus, stepResult, started, wfStatus,
            context, pc, readySteps, idx, returned, seenCtx, readyLog, nExec,
            sinceReset, prevRun, batches>>

VARIABLES
    exc,          \* the exception given to should_retry_error
    verdict,      \* what should_retry_error returned for it
    env,          \* FN_CALL, NON_FN_CALL, ADD_USER of framework/constants.py
    agent,        \* the Agent given to get_chat_completion
    history,      \* the caller's history list, given to get_chat_completion
    dpc,          \* position of the caller in MetaChain.get_chat_completion
    builtTools,   \* the contracts function_to_json built (core.py line 135)
    request,      \* create_params of the completion() calls made, in order
    raisedExc,    \* the exception that left get_chat_completion
    response      \* the value get_chat_completion returned

dispVars == <<exc, verdict, env, agent, history, dpc, builtTools, request,
              raisedExc, response>>

VARIABLES
    func,         \* the callable given to function_to_json
    contract      \* the contract function_to_json returned for it

schemaVars == <<func, contract>>

VARIABLES
    convIn,       \* the message list a caller of the converter starts from
    convOut,      \* the message list the last conversion returned
    ops,          \* the conversions applied so far, in order
    convExc,      \* the exception that left a conversion
    extracted     \* a text and what extract_tool_calls_from_content made of it

convVars == <<convIn, convOut, ops, convExc, extracted>>

VARIABLES
    registry,     \* Registry: tools, agents, workflows, plugin_tools, plugin_agents
    toolRegistry, \* ToolRegistry.tools
    regLog        \* the registrations made so far, in order

regVars == <<registry, toolRegistry, regLog>>

VARIABLES
    rpc,          \* position of the caller in MetaChain.run
    toolIdx,      \* position of the for loop of run in message.tool_calls
    toolResults,  \* response.tool_results
    invoked,      \* the tool functions run has called, with their arguments
    runExc,       \* the exception that left run
    runResult     \* the value run returned

runVars == <<rpc, toolIdx, toolResults, invoked, runExc, runResult>>

VARIABLES
    toolsIn,      \* the tool list given to adapt_tools_for_gemini
    toolsOut      \* the tool list adapt_tools_for_gemini returned

adaptVars == <<toolsIn, toolsOut>>

VARIABLES
    sessions,     \* CollaborationService.sessions: document id -> session object
    participants, \* CollaborationSession.participants of every session object
    tasks         \* the coroutines started on the service, in order of their call

collabVars == <<sessions, participants, tasks>>

\* what the operations of one component leave alone
notWfVars == <<dispVars, schemaVars, convVars, regVars, runVars, adaptVars, collabVars>>
notDispVars == <<wfVars, schemaVars, convVars, regVars, runVars, adaptVars, collabVars>>
notSchemaVars == <<wfVars, dispVars, convVars, regVars, runVars, adaptVars, collabVars>>
notConvVars == <<wfVars, dispVars, schemaVars, regVars, runVars, adaptVars, collabVars>>
notRegVars == <<wfVars, dispVars, schemaVars, convVars, runVars, adaptVars, collabVars>>
notRunVars == <<wfVars, dispVars, schemaVars, convVars, regVars, adaptVars, collabVars>>
notAdaptVars == <<wfVars, dispVars, schemaVars, convVars, regVars, runVars, collabVars>>
notCollabVars == <<wfVars, dispVars, schemaVars, convVars, regVars, runVars, adaptVars>>

vars == <<wfVars, dispVars, schemaVars, convVars, regVars, runVars, adaptVars,
          collabVars>>

\* adapt_tools_for_gemini before any call, with nothing given to it
AdaptIdle == toolsIn = <<>> /\ toolsOut = [called |-> FALSE, tools |-> <<>>]

\* CollaborationService(): no session, and no coroutine started
CollabIdle ==
    /\ sessions = [d \in {} |-> 0]
    /\ participants = <<>>
    /\ tasks = <<>>

(***************************************************************************)
(* Workflow engine: helpers.                                               *)
(***************************************************************************)
\* WorkflowStepResult(success=True, data=d) / (success=False, error=str(e))
SuccessResult(d) == [success |-> TRUE, data |-> d, error |-> Null]

\* mutant: the result of a failed step carries the error as its data
FailureResult_DataIsError(msg) == [success |-> FALSE, data |-> msg, error |-> msg]

FailureResult(msg) == [success |-> FALSE, data |-> Null, error |-> msg]

\* the value a step function computes from the context it is given: the step
\* and the entries of the context it can read
StepFn(s, ctx) == [by |-> s, saw |-> {k \in DOMAIN ctx : ctx[k] # Null}]

\* dict assignment d[k] = v
DictSet(d, k, v) == [x \in (DOMAIN d) \cup {k} |-> IF x = k THEN v ELSE d[x]]

EmptyDict == [x \in {} |-> Null]

\* mutant: the dependencies of a step are not looked at
IsReady_IgnoreDeps(s) == stepStatus[s] = PENDING

\* mutant: a dependency that has finished, even FAILED, counts as met
IsReady_FinishedDeps(s) ==
    /\ stepStatus[s] = PENDING
    /\ \A d \in deps[s] :
          d \in Range(order) /\ stepStatus[d] \in {COMPLETED, FAILED}

\* mutant: a step is run again whatever its status
IsReady_AnyStatus(s) ==
    \A d \in deps[s] : d \in Range(order) /\ stepStatus[d] = COMPLETED

\* mutant: a dependency id that names no step of the workflow is ignored
IsReady_KnownDepsOnly(s) ==
    /\ stepStatus[s] = PENDING
    /\ \A d \in deps[s] : d \in Range(order) => stepStatus[d] = COMPLETED

\* mutant: a FAILED step is ready again
IsReady_RetryFailed(s) ==
    /\ stepStatus[s] \in {PENDING, FAILED}
    /\ \A d \in deps[s] : d \in Range(order) /\ stepStatus[d] = COMPLETED

\* mutant: a COMPLETED step is ready again
IsReady_CompletedAgain(s) ==
    /\ stepStatus[s] \in {PENDING, COMPLETED}
    /\ \A d \in deps[s] : d \in Range(order) /\ stepStatus[d] = COMPLETED

\* Workflow.get_ready_steps, the test of one step
IsReady(s) ==
    /\ stepStatus[s] = PENDING
    /\ \A d \in deps[s] : d \in Range(order) /\ stepStatus[d] = COMPLETED

\* Workflow.get_ready_steps: the ready steps in dict order
GetReadySteps == SelectSeq(order, IsReady)

\* mutant: SKIPPED is not accepted as a final status
AllCompleted_OnlyCompleted == \A s \in Range(order) : stepStatus[s] = COMPLETED

\* mutant: the workflow is COMPLETED unless a step is FAILED
AllCompleted_NoneFailed == \A s \in Range(order) : stepStatus[s] # FAILED

\* all(step.status in [COMPLETED, SKIPPED] for step in self.steps.values())
AllCompleted == \A s \in Range(order) : stepStatus[s] \in {COMPLETED, SKIPPED}

\* {step_id: step.result for step_id, step in self.steps.items()}
ResultMap == [s \in Range(order) |-> stepResult[s]]

DepSets == {d \in SUBSET StepIds : Cardinality(d) <= MaxDeps}

(***************************************************************************)
(* Workflow engine: state after construction (Workflow.create, no steps).  *)
(***************************************************************************)
WfInit ==
    /\ order = <<>>
    /\ deps = [s \in StepIds |-> {}]
    /\ fnRaises = [s \in StepIds |-> FALSE]
    /\ stepStatus = [s \in StepIds |-> PENDING]
    /\ stepResult = [s \in StepIds |-> Null]
    /\ started = [s \in StepIds |-> FALSE]
    /\ wfStatus = PENDING
    /\ context = EmptyDict
    /\ pc = "idle"
    /\ readySteps = <<>>
    /\ idx = 0
    /\ returned = Null
    /\ seenCtx = [s \in StepIds |-> Null]
    /\ readyLog = {}
    /\ nExec = 0
    /\ sinceReset = 0
    /\ prevRun = Null
    /\ batches = 0

(***************************************************************************)
(* Workflow.add_step: self.steps[step.id] = step.  The step is a fresh     *)
(* WorkflowStep whose status field the caller may have set to SKIPPED.     *)
(* An id already present keeps its place in the dict.                      *)
(***************************************************************************)
AddStep(s, d, r, st) ==
    /\ pc = "idle"
    /\ nExec = 0
    /\ \/ s \in Range(order) /\ order' = order
       \/ /\ Len(order) < Len(IdSeq)
          /\ s = IdSeq[Len(order) + 1]
          /\ order' = Append(order, s)
    /\ deps' = [deps EXCEPT ![s] = d]
    /\ fnRaises' = [fnRaises EXCEPT ![s] = r]
    /\ stepStatus' = [stepStatus EXCEPT ![s] = st]
    /\ stepResult' = [stepResult EXCEPT ![s] = Null]
    /\ started' = [started EXCEPT ![s] = FALSE]
    /\ UNCHANGED <<wfStatus, context, pc, readySteps, idx, returned, seenCtx, readyLog,
                   nExec, sinceReset, prevRun, batches>>
    /\ UNCHANGED notWfVars

(***************************************************************************)
(* Workflow.execute, lines 229-230: self.status = RUNNING.                 *)
(***************************************************************************)
ExecuteBegin ==
    /\ pc = "idle"
    /\ nExec < MaxExecutes
    /\ wfStatus' = RUNNING
    /\ pc' = "loop"
    /\ nExec' = nExec + 1
    /\ batches' = 0
    /\ UNCHANGED <<order, deps, fnRaises, stepStatus, stepResult, started,
                   context, readySteps, idx, returned, seenCtx, readyLog,
                   sinceReset, prevRun>>
    /\ UNCHANGED notWfVars

(***************************************************************************)
(* Workflow.execute, lines 234-236 and 250: get_ready_steps returned a     *)
(* non-empty list, which the for loop is about to run.                     *)
(***************************************************************************)
NextBatch ==
    /\ pc = "loop"
    /\ GetReadySteps # <<>>
    /\ readySteps' = GetReadySteps
    /\ idx' = 1
    /\ batches' = batches + 1
    /\ readyLog' = readyLog \cup Range(GetReadySteps)
    /\ pc' = "batch"
    /\ UNCHANGED <<order, deps, fnRaises, stepStatus, stepResult, started,
                   wfStatus, context, returned, seenCtx, nExec, sinceReset,
                   prevRun>>
    /\ UNCHANGED notWfVars

(***************************************************************************)
(* Workflow.execute, lines 236-248 and 257-260: the ready set is empty,    *)
(* the terminal status is decided and execute returns the result map.      *)
(***************************************************************************)
Finish ==
    /\ pc = "loop"
    /\ GetReadySteps = <<>>
    /\ wfStatus' = IF AllCompleted THEN COMPLETED ELSE FAILED
    /\ returned' = ResultMap
    /\ sinceReset' = sinceReset + 1
    /\ pc' = "idle"
    /\ UNCHANGED <<order, deps, fnRaises, stepStatus, stepResult, started,
                   context, readySteps, idx, seenCtx, readyLog, nExec, prevRun, batches>>
    /\ UNCHANGED notWfVars

(***************************************************************************)
(* WorkflowStep.execute, lines 102-106: the step is set RUNNING and its    *)
(* function is called with the shared context.                             *)
(***************************************************************************)
StepStart ==
    /\ pc = "batch"
    /\ LET s == readySteps[idx] IN
        /\ stepStatus' = [stepStatus EXCEPT ![s] = RUNNING]
        /\ started' = [started EXCEPT ![s] = TRUE]
        /\ seenCtx' = [seenCtx EXCEPT ![s] = context]
    /\ pc' = "infn"
    /\ UNCHANGED <<order, deps, fnRaises, stepResult, wfStatus, context,
                   readySteps, idx, returned, readyLog, nExec, sinceReset,
                   prevRun, batches>>
    /\ UNCHANGED notWfVars

\* str(e) of the exception the function of step s raises
ExceptionMessage(s) == [msg |-> s]

\* mutant: the try of WorkflowStep.execute catches nothing
Caught_Nothing(s) == FALSE

\* WorkflowStep.execute, line 109: "except Exception" catches the exception
\* the function of step s raises
Caught(s) == TRUE

\* mutant: the result data of a step is not stored in the shared context
ContextAfter_NotStored(ctx, s, res) == ctx

\* Workflow.execute, line 255: self.context[step.id] = result.data
ContextAfter(ctx, s, res) == DictSet(ctx, s, res.data)

(***************************************************************************)
(* WorkflowStep.execute, lines 106-115, and Workflow.execute, line 255:    *)
(* the function returns or raises, the step gets its result and status,    *)
(* and the result data is stored in the shared context.                    *)
(***************************************************************************)
StepEnd ==
    /\ pc = "infn"
    /\ LET s == readySteps[idx]
           res == IF fnRaises[s] THEN FailureResult(ExceptionMessage(s))
                  ELSE SuccessResult(StepFn(s, context))
           last == idx = Len(readySteps)
       IN IF fnRaises[s] /\ ~Caught(s)
          THEN /\ pc' = "raised"
               /\ UNCHANGED <<stepResult, stepStatus, context, idx, readySteps>>
          ELSE /\ stepResult' = [stepResult EXCEPT ![s] = res]
               /\ stepStatus' = [stepStatus EXCEPT ![s] =
                                    IF fnRaises[s] THEN FAILED ELSE COMPLETED]
               /\ context' = ContextAfter(context, s, res)
               /\ idx' = IF last THEN 0 ELSE idx + 1
               /\ readySteps' = IF last THEN <<>> ELSE readySteps
               /\ pc' = IF last THEN "loop" ELSE "batch"
    /\ UNCHANGED <<order, deps, fnRaises, started, wfStatus, returned, seenCtx,
                   readyLog, nExec, sinceReset, prevRun, batches>>
    /\ UNCHANGED notWfVars

(***************************************************************************)
(* Workflow.cancel / pause / resume: direct status mutators.  They may be  *)
(* called before execute, between two executes, from a step function or    *)
(* from another thread while execute runs.                                 *)
(***************************************************************************)
Cancel ==
    /\ wfStatus' = CANCELLED
    /\ UNCHANGED <<order, deps, fnRaises, stepStatus, stepResult, started,
                   context, pc, readySteps, idx, returned, seenCtx, readyLog, nExec,
                   sinceReset, prevRun, batches>>
    /\ UNCHANGED notWfVars

Pause ==
    /\ wfStatus' = PAUSED
    /\ UNCHANGED <<order, deps, fnRaises, stepStatus, stepResult, started,
                   context, pc, readySteps, idx, returned, seenCtx, readyLog, nExec,
                   sinceReset, prevRun, batches>>
    /\ UNCHANGED notWfVars

Resume ==
    /\ wfStatus' = IF wfStatus = PAUSED THEN RUNNING ELSE wfStatus
    /\ UNCHANGED <<order, deps, fnRaises, stepStatus, stepResult, started,
                   context, pc, readySteps, idx, returned, seenCtx, readyLog, nExec,
                   sinceReset, prevRun, batches>>
    /\ UNCHANGED notWfVars

\* mutant: reset() that does not clear the shared context
Reset_KeepContext ==
    /\ pc = "idle"
    /\ prevRun' = IF sinceReset = 0 THEN prevRun
                  ELSE [status |-> wfStatus, results |-> returned,
                        stepStatus |-> [s \in Range(order) |-> stepStatus[s]]]
    /\ wfStatus' = PENDING
    /\ stepStatus' = [s \in StepIds |->
                         IF s \in Range(order) THEN PENDING ELSE stepStatus[s]]
    /\ stepResult' = [s \in StepIds |->
                         IF s \in Range(order) THEN Null ELSE stepResult[s]]
    /\ started' = [s \in StepIds |->
                      IF s \in Range(order) THEN FALSE ELSE started[s]]
    /\ sinceReset' = 0
    /\ readyLog' = {}
    /\ UNCHANGED <<order, deps, fnRaises, context, pc, readySteps, idx,
                   returned, seenCtx, nExec, batches>>
    /\ UNCHANGED notWfVars

(***************************************************************************)
(* Workflow.reset, called by the caller of execute between two executes.   *)
(***************************************************************************)
Reset ==
    /\ pc = "idle"
    /\ prevRun' = IF sinceReset = 0 THEN prevRun
                  ELSE [status |-> wfStatus, results |-> returned,
                        stepStatus |-> [s \in Range(order) |-> stepStatus[s]]]
    /\ wfStatus' = PENDING
    /\ context' = EmptyDict
    /\ stepStatus' = [s \in StepIds |->
                         IF s \in Range(order) THEN PENDING ELSE stepStatus[s]]
    /\ stepResult' = [s \in StepIds |->
                         IF s \in Range(order) THEN Null ELSE stepResult[s]]
    /\ started' = [s \in StepIds |->
                      IF s \in Range(order) THEN FALSE ELSE started[s]]
    /\ sinceReset' = 0
    /\ UNCHANGED <<order, deps, fnRaises, pc, readySteps, idx, returned, seenCtx,
                   readyLog, nExec, batches>>
    /\ UNCHANGED notWfVars

(***************************************************************************)
(* Text.  A Python str is the sequence of its characters.                  *)
(***************************************************************************)
UpperChars == <<"A", "B", "C", "D", "E", "F", "G", "H", "I", "J", "K", "L", "M", "N", "O", "P", "Q", "R", "S", "T", "U", "V", "W", "X", "Y", "Z">>

LowerChars == <<"a", "b", "c", "d", "e", "f", "g", "h", "i", "j", "k", "l", "m", "n", "o", "p", "q", "r", "s", "t", "u", "v", "w", "x", "y", "z">>

\* str.lower(), one character
LowerChar(c) ==
    IF \E i \in 1..Len(UpperChars) : UpperChars[i] = c
    THEN LowerChars[CHOOSE i \in 1..Len(UpperChars) : UpperChars[i] = c]
    ELSE c

\* str.lower()
Lower(s) == [i \in 1..Len(s) |-> LowerChar(s[i])]

\* p in s
Contains(p, s) ==
    \E i \in 0..(Len(s) - Len(p)) : SubSeq(s, i + 1, i + Len(p)) = p

\* s.startswith(p)
StartsWith(s, p) == Len(p) <= Len(s) /\ SubSeq(s, 1, Len(p)) = p

(***************************************************************************)
(* Python values.  A str is Str(s), s the sequence of its characters; an   *)
(* element of s longer than one character is a run of prose in which no    *)
(* function of the model looks.  None is Null, True and False are Bool(b), *)
(* an int is Num(d) with d its decimal digits, a list is Arr(q) and a dict *)
(* is Obj(q), q the sequence of its items [k, v] in insertion order.       *)
(***************************************************************************)
Str(s) == [str |-> s]
Bool(b) == [bool |-> b]
Num(d) == [num |-> d]
Arr(q) == [arr |-> q]
Obj(q) == [obj |-> q]

IsStr(v) == "str" \in DOMAIN v
IsObj(v) == "obj" \in DOMAIN v

\* the character U+0060 (grave accent), which a TLA+ string cannot hold
Backtick == "<U+0060>"

WhiteSpace == {" ", "\n", "\t", "\r"}
Digits == {"0", "1", "2", "3", "4", "5", "6", "7", "8", "9"}

Min(S) == CHOOSE x \in S : \A y \in S : x <= y

\* the characters w are in s from position i on
Holds(s, i, w) ==
    i + Len(w) - 1 <= Len(s) /\ SubSeq(s, i, i + Len(w) - 1) = w

\* str.strip()
RECURSIVE LStrip(_)
LStrip(s) == IF s # <<>> /\ Head(s) \in WhiteSpace THEN LStrip(Tail(s)) ELSE s

RECURSIVE RStrip(_)
RStrip(s) ==
    IF s # <<>> /\ s[Len(s)] \in WhiteSpace
    THEN RStrip(SubSeq(s, 1, Len(s) - 1)) ELSE s

Strip(s) == LStrip(RStrip(s))

\* d[k] = v on a dict: a key already present keeps its place
DictPut(q, k, v) ==
    IF \E i \in 1..Len(q) : q[i].k = k
    THEN [i \in 1..Len(q) |-> IF q[i].k = k THEN [k |-> k, v |-> v] ELSE q[i]]
    ELSE Append(q, [k |-> k, v |-> v])

\* k in d, d[k]
HasKey(q, k) == \E i \in 1..Len(q) : q[i].k = k
DictGet(q, k) == q[CHOOSE i \in 1..Len(q) : q[i].k = k].v

(***************************************************************************)
(* json.loads, as the converter and run call it: objects, arrays, strings  *)
(* with the escapes of the characters of the model, integers, true, false  *)
(* and null; anything else is a JSONDecodeError.                           *)
(***************************************************************************)
JsonError == [ok |-> FALSE, v |-> Null, next |-> 0]
JsonOk(v, n) == [ok |-> TRUE, v |-> v, next |-> n]

\* the first position from i on that holds no white space
RECURSIVE SkipWs(_, _)
SkipWs(s, i) ==
    IF i <= Len(s) /\ s[i] \in WhiteSpace THEN SkipWs(s, i + 1) ELSE i

\* the characters that may follow a backslash, and what the pair stands for
EscapeChars == {"\"", "\\", "/", "n", "t", "r"}
Unescaped(c) ==
    CASE c = "n" -> "\n"
      [] c = "t" -> "\t"
      [] c = "r" -> "\r"
      [] OTHER -> c

\* a string, from the position after its opening quote
RECURSIVE ScanString(_, _, _)
ScanString(s, i, acc) ==
    IF i > Len(s) THEN JsonError
    ELSE IF s[i] = "\"" THEN JsonOk(Str(acc), i + 1)
    ELSE IF s[i] = "\\"
    THEN IF i + 1 <= Len(s) /\ s[i + 1] \in EscapeChars
         THEN ScanString(s, i + 2, Append(acc, Unescaped(s[i + 1])))
         ELSE JsonError
    ELSE IF s[i] \in {"\n", "\t", "\r"} THEN JsonError
    ELSE ScanString(s, i + 1, Append(acc, s[i]))

RECURSIVE ScanDigits(_, _)
ScanDigits(s, i) ==
    IF i <= Len(s) /\ s[i] \in Digits THEN ScanDigits(s, i + 1) ELSE i

\* an integer: an optional minus, then 0 or a digit string not starting with 0
ScanNumber(s, i) ==
    LET d == IF s[i] = "-" THEN i + 1 ELSE i
        e == ScanDigits(s, d)
    IN IF e = d THEN JsonError
       ELSE IF s[d] = "0" THEN JsonOk(Num(<<"0">>), d + 1)
       ELSE JsonOk(Num(SubSeq(s, i, e - 1)), e)

RECURSIVE ParseValue(_, _)
RECURSIVE ParseItems(_, _, _)
RECURSIVE ParseMembers(_, _, _)

\* the value that starts at the first non-blank position from i on
ParseValue(s, i) ==
    LET Members(m) ==
            IF m <= Len(s) /\ s[m] = "}" THEN JsonOk(Obj(<<>>), m + 1)
            ELSE ParseMembers(s, m, <<>>)
        Items(m) ==
            IF m <= Len(s) /\ s[m] = "]" THEN JsonOk(Arr(<<>>), m + 1)
            ELSE ParseItems(s, m, <<>>)
        Value(b) ==
            IF b > Len(s) THEN JsonError
            ELSE IF s[b] = "\"" THEN ScanString(s, b + 1, <<>>)
            ELSE IF s[b] = "{" THEN Members(SkipWs(s, b + 1))
            ELSE IF s[b] = "[" THEN Items(SkipWs(s, b + 1))
            ELSE IF s[b] \in Digits \cup {"-"} THEN ScanNumber(s, b)
            ELSE IF Holds(s, b, <<"t", "r", "u", "e">>) THEN JsonOk(Bool(TRUE), b + 4)
            ELSE IF Holds(s, b, <<"f", "a", "l", "s", "e">>) THEN JsonOk(Bool(FALSE), b + 5)
            ELSE IF Holds(s, b, <<"n", "u", "l", "l">>) THEN JsonOk(Null, b + 4)
            ELSE JsonError
    IN Value(SkipWs(s, i))

\* the items of an array, from the position of an item on
ParseItems(s, i, acc) ==
    LET After(item, e) ==
            IF e > Len(s) THEN JsonError
            ELSE IF s[e] = "," THEN ParseItems(s, e + 1, Append(acc, item.v))
            ELSE IF s[e] = "]" THEN JsonOk(Arr(Append(acc, item.v)), e + 1)
            ELSE JsonError
        Item(item) ==
            IF ~item.ok THEN JsonError ELSE After(item, SkipWs(s, item.next))
    IN Item(ParseValue(s, i))

\* the members of an object, from the position of a key on
ParseMembers(s, i, acc) ==
    LET After(all, e) ==
            IF e > Len(s) THEN JsonError
            ELSE IF s[e] = "," THEN ParseMembers(s, SkipWs(s, e + 1), all)
            ELSE IF s[e] = "}" THEN JsonOk(Obj(all), e + 1)
            ELSE JsonError
        Member(key, val) ==
            IF ~val.ok THEN JsonError
            ELSE After(DictPut(acc, key.v.str, val.v), SkipWs(s, val.next))
        Colon(key, c) ==
            IF c > Len(s) \/ s[c] # ":" THEN JsonError
            ELSE Member(key, ParseValue(s, c + 1))
        Key(key) ==
            IF ~key.ok THEN JsonError ELSE Colon(key, SkipWs(s, key.next))
    IN IF i > Len(s) \/ s[i] # "\"" THEN JsonError
       ELSE Key(ScanString(s, i + 1, <<>>))

\* json.loads(s): one value, with nothing but white space after it
JsonLoads(s) ==
    LET Whole(r) == IF r.ok /\ SkipWs(s, r.next) > Len(s) THEN r ELSE JsonError
    IN Whole(ParseValue(s, 1))

(***************************************************************************)
(* json.dumps(v) and json.dumps(v, indent=n); indent 0 stands for None.    *)
(***************************************************************************)
EscapeChar(c) ==
    CASE c = "\"" -> <<"\\", "\"">>
      [] c = "\\" -> <<"\\", "\\">>
      [] c = "\n" -> <<"\\", "n">>
      [] c = "\t" -> <<"\\", "t">>
      [] c = "\r" -> <<"\\", "r">>
      [] OTHER -> <<c>>

RECURSIVE EscapeAll(_)
EscapeAll(s) ==
    IF s = <<>> THEN <<>> ELSE EscapeChar(Head(s)) \o EscapeAll(Tail(s))

DumpString(s) == <<"\"">> \o EscapeAll(s) \o <<"\"">>

\* what starts a line at nesting depth level
NewLine(indent, level) ==
    IF indent = 0 THEN <<>> ELSE <<"\n">> \o [i \in 1..(indent * level) |-> " "]

ItemSeparator(indent) == IF indent = 0 THEN <<",", " ">> ELSE <<",">>

RECURSIVE JsonDumpsAt(_, _, _)
RECURSIVE DumpItems(_, _, _, _)
RECURSIVE DumpMembers(_, _, _, _)

JsonDumpsAt(v, indent, level) ==
    CASE IsStr(v) -> DumpString(v.str)
      [] "num" \in DOMAIN v -> v.num
      [] "bool" \in DOMAIN v -> IF v.bool THEN <<"t", "r", "u", "e">> ELSE <<"f", "a", "l", "s", "e">>
      [] "none" \in DOMAIN v -> <<"n", "u", "l", "l">>
      [] "arr" \in DOMAIN v ->
            IF v.arr = <<>> THEN <<"[", "]">>
            ELSE <<"[">> \o DumpItems(v.arr, indent, level + 1, 1)
                 \o NewLine(indent, level) \o <<"]">>
      [] IsObj(v) ->
            IF v.obj = <<>> THEN <<"{", "}">>
            ELSE <<"{">> \o DumpMembers(v.obj, indent, level + 1, 1)
                 \o NewLine(indent, level) \o <<"}">>

DumpItems(q, indent, level, n) ==
    NewLine(indent, level) \o JsonDumpsAt(q[n], indent, level)
    \o (IF n = Len(q) THEN <<>>
        ELSE ItemSeparator(indent) \o DumpItems(q, indent, level, n + 1))

DumpMembers(q, indent, level, n) ==
    NewLine(indent, level) \o DumpString(q[n].k) \o <<":", " ">>
    \o JsonDumpsAt(q[n].v, indent, level)
    \o (IF n = Len(q) THEN <<>>
        ELSE ItemSeparator(indent) \o DumpMembers(q, indent, level, n + 1))

JsonDumps(v, indent) == JsonDumpsAt(v, indent, 0)

\* str(v), as an f-string formats a str, an int, a bool or None
Format(v) ==
    CASE IsStr(v) -> v.str
      [] "num" \in DOMAIN v -> v.num
      [] "bool" \in DOMAIN v -> IF v.bool THEN <<"T", "r", "u", "e">> ELSE <<"F", "a", "l", "s", "e">>
      [] "none" \in DOMAIN v -> <<"N", "o", "n", "e">>

(***************************************************************************)
(* should_retry_error (framework/core.py).                                 *)
(***************************************************************************)
\* the exception classes of isinstance(exception, (...))
RetryTypes == {"APIError", "RemoteProtocolError", "ConnectError"}

\* the substrings looked for in the lower-cased message
RetryPatterns ==
    {<<"c", "o", "n", "n", "e", "c", "t", "i", "o", "n", " ", "e", "r", "r", "o", "r">>,
     <<"s", "e", "r", "v", "e", "r", " ", "d", "i", "s", "c", "o", "n", "n", "e", "c", "t", "e", "d">>,
     <<"e", "o", "f", " ", "o", "c", "c", "u", "r", "r", "e", "d">>,
     <<"t", "i", "m", "e", "o", "u", "t">>,
     <<"e", "v", "e", "n", "t", " ", "l", "o", "o", "p", " ", "i", "s", " ", "c", "l", "o", "s", "e", "d">>,
     <<"a", "n", "t", "h", "r", "o", "p", "i", "c", "e", "x", "c", "e", "p", "t", "i", "o", "n">>}

\* mutant: the message is matched without being lower-cased
ShouldRetryError_CaseSensitive(e) ==
    \/ e.type \in RetryTypes
    \/ \E p \in RetryPatterns : Contains(p, e.msg)

\* should_retry_error(exception)
ShouldRetryError(e) ==
    \/ e.type \in RetryTypes
    \/ \E p \in RetryPatterns : Contains(p, Lower(e.msg))

\* exception classes a provider call raises
ExcTypes == {"APIError", "RemoteProtocolError", "ConnectError", "Exception",
             "ValueError"}

\* messages: a core, with up to MaxPad characters before and after it
MessageCores ==
    {<<"c", "o", "n", "n", "e", "c", "t", "i", "o", "n", " ", "e", "r", "r", "o", "r">>,
     <<"C", "O", "N", "N", "E", "C", "T", "I", "O", "N", " ", "E", "R", "R", "O", "R">>,
     <<"C", "o", "n", "n", "e", "c", "t", "i", "o", "n", " ", "e", "r", "r", "o", "r">>,
     <<"s", "e", "r", "v", "e", "r", " ", "d", "i", "s", "c", "o", "n", "n", "e", "c", "t", "e", "d">>,
     <<"S", "E", "R", "V", "E", "R", " ", "D", "I", "S", "C", "O", "N", "N", "E", "C", "T", "E", "D">>,
     <<"S", "e", "r", "v", "e", "r", " ", "d", "i", "s", "c", "o", "n", "n", "e", "c", "t", "e", "d">>,
     <<"e", "o", "f", " ", "o", "c", "c", "u", "r", "r", "e", "d">>,
     <<"E", "O", "F", " ", "O", "C", "C", "U", "R", "R", "E", "D">>,
     <<"E", "o", "f", " ", "o", "c", "c", "u", "r", "r", "e", "d">>,
     <<"t", "i", "m", "e", "o", "u", "t">>,
     <<"T", "I", "M", "E", "O", "U", "T">>,
     <<"T", "i", "m", "e", "o", "u", "t">>,
     <<"e", "v", "e", "n", "t", " ", "l", "o", "o", "p", " ", "i", "s", " ", "c", "l", "o", "s", "e", "d">>,
     <<"E", "V", "E", "N", "T", " ", "L", "O", "O", "P", " ", "I", "S", " ", "C", "L", "O", "S", "E", "D">>,
     <<"E", "v", "e", "n", "t", " ", "l", "o", "o", "p", " ", "i", "s", " ", "c", "l", "o", "s", "e", "d">>,
     <<"a", "n", "t", "h", "r", "o", "p", "i", "c", "e", "x", "c", "e", "p", "t", "i", "o", "n">>,
     <<"A", "N", "T", "H", "R", "O", "P", "I", "C", "E", "X", "C", "E", "P", "T", "I", "O", "N">>,
     <<"A", "n", "t", "h", "r", "o", "p", "i", "c", "e", "x", "c", "e", "p", "t", "i", "o", "n">>,
     <<"i", "n", "v", "a", "l", "i", "d", " ", "a", "p", "i", " ", "k", "e", "y">>,
     <<"t", "i", "m", "e", " ", "o", "u", "t">>,
     <<"c", "o", "n", "n", "e", "c", "t", "i", "o", "n", " ", " ", "e", "r", "r", "o", "r">>,
     <<>>,
     <<"t", "i", "m", "e", "d", " ", "o", "u", "t">>}

PadChars == {"x", " "}
Pads == UNION {[1..n -> PadChars] : n \in 0..MaxPad}
Messages == {a \o c \o b : a \in Pads, c \in MessageCores, b \in Pads}
Exceptions == [type : ExcTypes, msg : Messages]

NoException == [type |-> "none", msg |-> <<>>]

\* a caller applies should_retry_error to the exception it holds
ShouldRetry ==
    /\ verdict = "unset"
    /\ verdict' = IF ShouldRetryError(exc) THEN "retry" ELSE "fatal"
    /\ UNCHANGED <<exc, env, agent, history, dpc, builtTools, request,
                   raisedExc, response>>
    /\ UNCHANGED notDispVars

(***************************************************************************)
(* function_to_json (framework/util.py).  A callable is its __name__, the  *)
(* first paragraph of its docstring and its parameters in declaration      *)
(* order: name, annotation ("empty": none), default present or not, and    *)
(* the text of its ":param name:" line.                                    *)
(***************************************************************************)
CtxVarsName == "context_variables"

ParamNames == {CtxVarsName, "name", "time_of_day"}
Annotations == {"empty", "str", "int", "float", "bool", "list", "dict"}

\* lines 48-59: the JSON type of an annotation
ParamType(annotation) ==
    CASE annotation = "int" -> "integer"
      [] annotation = "float" -> "number"
      [] annotation = "bool" -> "boolean"
      [] annotation = "list" -> "array"
      [] annotation = "dict" -> "object"
      [] OTHER -> "string"

\* mutant: the reserved parameter is skipped only when it has no annotation
Skipped_UnlessAnnotated(prm) ==
    prm.name = CtxVarsName /\ prm.annotation = "empty"

\* lines 40-42: the parameter function_to_json skips
Skipped(prm) == prm.name = CtxVarsName

\* lines 69-72: the entry of one parameter in parameters["properties"]
Property(prm) ==
    [name |-> prm.name, type |-> ParamType(prm.annotation),
     description |-> prm.doc]

\* mutant: every parameter kept is listed as required
FunctionToJson_AllRequired(f) ==
    LET kept == SelectSeq(f.params, LAMBDA prm : ~Skipped(prm))
    IN [type |-> "function",
        function |->
          [name |-> f.name,
           description |-> f.doc,
           parameters |->
             [type |-> "object",
              properties |-> [i \in 1..Len(kept) |-> Property(kept[i])],
              required |-> [i \in 1..Len(kept) |-> kept[i].name]]]]

\* function_to_json(func); the properties dict is the sequence of its items
FunctionToJson(f) ==
    LET kept == SelectSeq(f.params, LAMBDA prm : ~Skipped(prm))
        needed == SelectSeq(kept, LAMBDA prm : ~prm.has_default)
    IN [type |-> "function",
        function |->
          [name |-> f.name,
           description |-> f.doc,
           parameters |->
             [type |-> "object",
              properties |-> [i \in 1..Len(kept) |-> Property(kept[i])],
              required |-> [i \in 1..Len(needed) |-> needed[i].name]]]]

\* callables: up to MaxParams parameters with distinct names
ParamsOver(annotations) ==
    [name : ParamNames, annotation : annotations, has_default : BOOLEAN,
     doc : {""}]
ParamLists(annotations) ==
    {q \in UNION {[1..n -> ParamsOver(annotations)] : n \in 0..MaxParams} :
        \A i, j \in 1..Len(q) : i # j => q[i].name # q[j].name}
Callables(annotations) ==
    {[name |-> "greet", doc |-> "", params |-> q] : q \in ParamLists(annotations)}

\* no callable has been given to function_to_json
SchemaIdle == func = Null /\ contract = Null

\* a caller applies function_to_json to the callable it holds
BuildContract ==
    /\ func # Null
    /\ contract = Null
    /\ contract' = FunctionToJson(func)
    /\ UNCHANGED func
    /\ UNCHANGED notSchemaVars

(***************************************************************************)
(* MetaChain.get_chat_completion (framework/core.py).                      *)
(***************************************************************************)
\* list.remove(x): the first occurrence
RemoveFirst(q, x) ==
    IF \E i \in 1..Len(q) : q[i] = x
    THEN LET i == CHOOSE i \in 1..Len(q) : q[i] = x /\ \A j \in 1..(i - 1) : q[j] # x
         IN SubSeq(q, 1, i - 1) \o SubSeq(q, i + 1, Len(q))
    ELSE q

\* lines 137-141: hide context_variables from the model
HideContextVariables(tool) ==
    [tool EXCEPT
       !.function.parameters.properties =
           SelectSeq(@, LAMBDA prop : prop.name # CtxVarsName),
       !.function.parameters.required = RemoveFirst(@, CtxVarsName)]

\* lines 80-85 and 92-97: the placeholder property
DummyProperty ==
    [name |-> "dummy", type |-> "string",
     description |-> "Dummy property for Gemini compatibility"]

\* lines 90-97: a nested object parameter gets the placeholder
AdaptProperty(prop) ==
    IF prop.type = "object"
       /\ ("properties" \notin DOMAIN prop \/ prop.properties = <<>>)
    THEN [x \in (DOMAIN prop) \cup {"properties"} |->
             IF x = "properties" THEN <<DummyProperty>> ELSE prop[x]]
    ELSE prop

\* lines 78-97: the parameters schema of one tool.  The top level gets the
\* placeholder when it is an object without properties, then each of its
\* properties is looked at, and nothing below them
AdaptParameters(params) ==
    LET top == IF params.type = "object"
                  /\ ("properties" \notin DOMAIN params \/ params.properties = <<>>)
               THEN [x \in (DOMAIN params) \cup {"properties"} |->
                        IF x = "properties" THEN <<DummyProperty>> ELSE params[x]]
               ELSE params
    IN IF "properties" \in DOMAIN top
       THEN [top EXCEPT !.properties = [i \in 1..Len(@) |-> AdaptProperty(@[i])]]
       ELSE top

\* adapt_tools_for_gemini, one tool (a deep copy of it)
AdaptTool(tool) ==
    IF "parameters" \in DOMAIN tool.function
    THEN [tool EXCEPT !.function.parameters = AdaptParameters(@)]
    ELSE tool

\* adapt_tools_for_gemini(tools)
AdaptToolsForGemini(tools) == [i \in 1..Len(tools) |-> AdaptTool(tools[i])]

\* a str of the schema as part of a text; the empty str adds nothing
Piece(x) == IF x = "" THEN <<>> ELSE <<x>>

\* convert_tools_to_description, lines 48-53: the lines of the parameters
RECURSIVE ParamLines(_, _)
ParamLines(props, required) ==
    IF props = <<>> THEN <<>>
    ELSE LET prop == Head(props) IN
         <<"  - ", prop.name, " (", prop.type, ", ",
           IF \E j \in 1..Len(required) : required[j] = prop.name
           THEN "required" ELSE "optional", "): ">>
         \o Piece(prop.description) \o <<"\n">>
         \o ParamLines(Tail(props), required)

\* convert_tools_to_description, lines 37-55: the text of one tool
ToolDescription(tool) ==
    LET fn == tool.function IN
    <<"- ", fn.name, ": ">> \o Piece(fn.description)
    \o <<"\n", "  Parameters:\n">>
    \o ParamLines(fn.parameters.properties, fn.parameters.required)
    \o <<"\n">>

\* convert_tools_to_description(tools)
RECURSIVE ConvertToolsToDescription(_)
ConvertToolsToDescription(tools) ==
    IF tools = <<>> THEN <<>>
    ELSE ToolDescription(Head(tools)) \o ConvertToolsToDescription(Tail(tools))

\* the fences of the textual protocol
Fence == <<Backtick, Backtick, Backtick>>
ToolFence == Fence \o <<"t", "o", "o", "l">>

Key_name == <<"n", "a", "m", "e">>
Key_arguments == <<"a", "r", "g", "u", "m", "e", "n", "t", "s">>

\* re.findall(r"```tool\s*(.*?)```", content, re.DOTALL), from position p
\* on: the leftmost opening fence, the white space after it, and the text
\* up to the first fence that follows
RECURSIVE FindToolBlocks(_, _)
FindToolBlocks(s, p) ==
    LET opens == {i \in p..Len(s) : Holds(s, i, ToolFence)} IN
    IF opens = {} THEN <<>>
    ELSE LET j == SkipWs(s, Min(opens) + Len(ToolFence))
             closes == {k \in j..Len(s) : Holds(s, k, Fence)}
         IN IF closes = {} THEN <<>>
            ELSE <<SubSeq(s, j, Min(closes) - 1)>>
                 \o FindToolBlocks(s, Min(closes) + Len(Fence))

NoCalls(e) == [calls |-> <<>>, exc |-> e]

\* extract_tool_calls_from_content, lines 76-86: what the body of the try
\* appends for one block, and the exception it raises ("none": none)
BlockOutcome(block) ==
    LET Outcome(r) ==
            IF ~r.ok THEN NoCalls("JSONDecodeError")
            ELSE IF IsObj(r.v)
            THEN IF HasKey(r.v.obj, Key_name) /\ HasKey(r.v.obj, Key_arguments)
                 THEN [calls |->
                         <<[type |-> "function",
                            function |->
                              [name |-> DictGet(r.v.obj, Key_name),
                               arguments |->
                                 Str(JsonDumps(DictGet(r.v.obj, Key_arguments),
                                               0))]]>>,
                       exc |-> "none"]
                 ELSE NoCalls("none")
            ELSE IF IsStr(r.v)
            THEN IF Contains(Key_name, r.v.str) /\ Contains(Key_arguments, r.v.str)
                 THEN NoCalls("TypeError") ELSE NoCalls("none")
            ELSE IF "arr" \in DOMAIN r.v
            THEN IF /\ \E i \in 1..Len(r.v.arr) : r.v.arr[i] = Str(Key_name)
                    /\ \E i \in 1..Len(r.v.arr) : r.v.arr[i] = Str(Key_arguments)
                 THEN NoCalls("TypeError") ELSE NoCalls("none")
            ELSE NoCalls("TypeError")
    IN Outcome(JsonLoads(Strip(block)))

\* mutant: except json.JSONDecodeError instead of a bare except
Swallowed_JsonErrorsOnly(e) == e = "JSONDecodeError"

\* extract_tool_calls_from_content, lines 87-89: the bare except
Swallowed(e) == TRUE

\* extract_tool_calls_from_content, lines 74-91: the for loop over the blocks
RECURSIVE ExtractFromBlocks(_)
ExtractFromBlocks(blocks) ==
    IF blocks = <<>> THEN [calls |-> <<>>, raised |-> "none"]
    ELSE LET Rest(o, rest) ==
                 [calls |-> o.calls \o rest.calls, raised |-> rest.raised]
             Block(o) ==
                 IF o.exc # "none" /\ ~Swallowed(o.exc)
                 THEN [calls |-> <<>>, raised |-> o.exc]
                 ELSE Rest(o, ExtractFromBlocks(Tail(blocks)))
         IN Block(BlockOutcome(Head(blocks)))

\* extract_tool_calls_from_content(content): the list it returns, or the
\* exception that leaves it; re.findall raises TypeError for a content that
\* is not a str
ExtractToolCallsFromContent(content) ==
    IF ~IsStr(content) THEN [calls |-> <<>>, raised |-> "TypeError"]
    ELSE ExtractFromBlocks(FindToolBlocks(content.str, 1))

\* message.get("content", "")
ContentOf(m) == IF "content" \in DOMAIN m THEN m.content ELSE Str(<<>>)

\* convert_non_fncall_messages_to_fncall_messages, one message
ConvertNonFncallMessage(m) ==
    IF m.role = "assistant"
    THEN LET Converted(r) ==
                 [raised |-> r.raised,
                  msg |-> IF r.raised = "none" /\ r.calls # <<>>
                          THEN [role |-> m.role, content |-> Null,
                                tool_calls |-> r.calls]
                          ELSE m]
         IN Converted(ExtractToolCallsFromContent(ContentOf(m)))
    ELSE [raised |-> "none", msg |-> m]

\* convert_non_fncall_messages_to_fncall_messages(messages): the list it
\* returns, or the exception that leaves it
ConvertNonFncallMessagesToFncallMessages(msgs) ==
    LET List(each, bad) ==
            IF bad = {}
            THEN [raised |-> "none",
                  msgs |-> [i \in 1..Len(msgs) |-> each[i].msg]]
            ELSE [raised |-> each[Min(bad)].raised, msgs |-> <<>>]
        Each(each) ==
            List(each, {i \in 1..Len(msgs) : each[i].raised # "none"})
    IN Each([i \in 1..Len(msgs) |-> ConvertNonFncallMessage(msgs[i])])

\* convert_fn_messages_to_non_fn_messages, lines 154-164: one tool call
ToolCallText(tool_call) ==
    LET name == tool_call.function.name
        arguments == tool_call.function.arguments
        ArgsStr(args_dict) ==
            IF args_dict.ok THEN JsonDumps(args_dict.v, 2)
            ELSE Format(arguments)
        args_str == ArgsStr(IF IsStr(arguments) THEN JsonLoads(arguments.str)
                            ELSE JsonError)
    IN ToolFence \o <<"\n", "{", "\n", " ", " ", "\"", "n", "a", "m", "e", "\"", ":", " ", "\"">> \o Format(name)
       \o <<"\"", ",", "\n", " ", " ", "\"", "a", "r", "g", "u", "m", "e", "n", "t", "s", "\"", ":", " ">> \o args_str
       \o <<"\n", "}", "\n">> \o Fence \o <<"\n", "\n">>

RECURSIVE ToolCallsText(_)
ToolCallsText(calls) ==
    IF calls = <<>> THEN <<>>
    ELSE ToolCallText(Head(calls)) \o ToolCallsText(Tail(calls))

\* convert_fn_messages_to_non_fn_messages, one message
ConvertFnMessage(m) ==
    LET content == ContentOf(m)
        tool_calls == IF "tool_calls" \in DOMAIN m THEN m.tool_calls ELSE <<>>
        calls == SelectSeq(tool_calls, LAMBDA c : c.type = "function")
    IN IF m.role = "assistant" /\ tool_calls # <<>>
       THEN [role |-> m.role,
             content |->
               Str((IF IsStr(content) THEN content.str ELSE <<>>)
                   \o <<"\n", "\n">> \o Strip(ToolCallsText(calls)))]
       ELSE m

\* convert_fn_messages_to_non_fn_messages(messages)
ConvertFnMessagesToNonFnMessages(msgs) ==
    [i \in 1..Len(msgs) |-> ConvertFnMessage(msgs[i])]

PleaseContinue == [role |-> "user", content |-> Str(<<"Please continue.">>)]

\* interleave_user_into_messages(messages)
\* mutant: the user message is put after every assistant message that has
\* a successor, whatever the role of the successor
RECURSIVE InterleaveUserIntoMessages_AfterAssistant(_)
InterleaveUserIntoMessages_AfterAssistant(msgs) ==
    IF Len(msgs) <= 1 THEN msgs
    ELSE (IF msgs[1].role = "assistant"
          THEN <<msgs[1], PleaseContinue>> ELSE <<msgs[1]>>)
         \o InterleaveUserIntoMessages_AfterAssistant(Tail(msgs))

RECURSIVE InterleaveUserIntoMessages(_)
InterleaveUserIntoMessages(msgs) ==
    IF Len(msgs) <= 1 THEN msgs
    ELSE (IF msgs[1].role = "assistant" /\ msgs[2].role = "assistant"
          THEN <<msgs[1], PleaseContinue>> ELSE <<msgs[1]>>)
         \o InterleaveUserIntoMessages(Tail(msgs))

\* del message['sender'] for every message that has one
DropSender(m) == [x \in (DOMAIN m) \ {"sender"} |-> m[x]]
DropSenders(msgs) == [i \in 1..Len(msgs) |-> DropSender(msgs[i])]

\* model names
Model_gpt4o == <<"g", "p", "t", "-", "4", "o">>

Model_GeminiPro == <<"G", "e", "m", "i", "n", "i", "-", "P", "r", "o">>

Model_gemini == <<"g", "e", "m", "i", "n", "i", "/", "g", "e", "m", "i", "n", "i", "-", "p", "r", "o">>

Model_claude == <<"c", "l", "a", "u", "d", "e", "-", "3", "-", "o", "p", "u", "s">>

Model_o1 == <<"o", "1", "-", "m", "i", "n", "i">>

Models == {Model_gpt4o, Model_GeminiPro, Model_gemini, Model_claude, Model_o1}

Str_gpt == <<"g", "p", "t">>

Str_gemini == <<"g", "e", "m", "i", "n", "i">>

Str_claude == <<"c", "l", "a", "u", "d", "e">>

Str_llama == <<"l", "l", "a", "m", "a">>

Str_mistral == <<"m", "i", "s", "t", "r", "a", "l">>

Str_anthropic == <<"a", "n", "t", "h", "r", "o", "p", "i", "c">>

\* framework/constants.py, NOT_SUPPORT_SENDER
NOT_SUPPORT_SENDER == {Str_claude, Str_gemini, Str_llama, Str_mistral, Str_anthropic}

\* lines 156-159: some entry of NOT_SUPPORT_SENDER is in the model name
NoSenderMode(model) == \E n \in NOT_SUPPORT_SENDER : Contains(n, model)

\* litellm.supports_function_calling(model): the models litellm lists
SupportsFunctionCalling(model) == model # Model_o1

\* framework/constants.py, API_BASE_URL: not set in the environment
API_BASE_URL == "None"

\* the instructions of the agent and the messages of the conversation
SystemMessage ==
    [role |-> "system", content |-> Str(<<"You are a helpful agent.">>)]
UserMessage == [role |-> "user", content |-> Str(<<"Hello">>)]
AssistantMessage ==
    [role |-> "assistant", content |-> Str(<<"Hi">>), sender |-> "Agent"]

\* the line of the example block of SYSTEM_PROMPT_SUFFIX_TEMPLATE
TemplateExample == <<"{", "\"", "n", "a", "m", "e", "\"", ":", " ", "\"", "t", "o", "o", "l", "_", "n", "a", "m", "e", "\"", ",", " ", "\"", "a", "r", "g", "u", "m", "e", "n", "t", "s", "\"", ":", " ", "{", "\"", "a", "r", "g", "1", "\"", ":", " ", "\"", "v", "a", "l", "u", "e", "1", "\"", ",", " ", "\"", "a", "r", "g", "2", "\"", ":", " ", "\"", "v", "a", "l", "u", "e", "2", "\"", ",", " ", ".", ".", ".", "}", "}">>

\* SYSTEM_PROMPT_SUFFIX_TEMPLATE.format(description=description)
SystemPromptSuffix(description) ==
    <<"\nAvailable tools:\n">> \o description
    \o <<"\n\nTo use a tool, respond with the following format:\n">>
    \o ToolFence \o <<"\n">> \o TemplateExample \o <<"\n">> \o Fence
    \o <<"\n\nYou MUST use one of the provided tools to respond to the user. Do not respond in any other format.\n">>

\* the text that textual mode appends to the last message (line 175)
TextualSuffix(tools) ==
    <<"\n[IMPORTANT] You MUST use the tools provided to complete the task.\n">>
    \o SystemPromptSuffix(ConvertToolsToDescription(tools))

\* messages[-1]["content"] = last_content + ...
AppendToLast(msgs, text) ==
    [msgs EXCEPT ![Len(msgs)].content = Str(@.str \o text)]

\* lines 123-145: what both modes start from
ToolsBuilt == [i \in 1..Len(agent.functions) |-> FunctionToJson(agent.functions[i])]
ToolsHidden == [i \in 1..Len(ToolsBuilt) |-> HideContextVariables(ToolsBuilt[i])]
CreateModel(model_override) ==
    IF model_override # <<>> THEN model_override ELSE agent.model
ToolsFor(model) ==
    IF Contains(Str_gemini, Lower(model)) THEN AdaptToolsForGemini(ToolsHidden)
    ELSE ToolsHidden
MessagesOf == <<SystemMessage>> \o agent.examples \o history

\* the caller's lists after the message dicts they share with messages
\* have been changed in place
ExamplesOf(msgs) == SubSeq(msgs, 2, 1 + Len(agent.examples))
HistoryOf(msgs) == SubSeq(msgs, 2 + Len(agent.examples), Len(msgs))

\* str(agent.tool_choice)
ToolChoiceText(tool_choice) ==
    IF tool_choice = "required" THEN <<"r", "e", "q", "u", "i", "r", "e", "d">>
    ELSE <<"a", "u", "t", "o">>

\* line 147: the assertion on litellm.supports_function_calling fails
ModelAssertion(model) ==
    [type |-> "AssertionError",
     msg |-> <<"M", "o", "d", "e", "l", " ">> \o model
             \o <<" ", "d", "o", "e", "s", " ", "n", "o", "t", " ", "s", "u", "p", "p", "o", "r", "t", " ", "f", "u", "n", "c", "t", "i", "o", "n", " ", "c", "a", "l", "l", "i", "n", "g", ",", " ", "p", "l", "e", "a", "s", "e", " ", "s", "e", "t", " ", Backtick, "F", "N", "_", "C", "A", "L", "L", "=", "F", "a", "l", "s", "e", Backtick, " ", "t", "o", " ", "u", "s", "e", " ", "n", "o", "n", "-", "f", "u", "n", "c", "t", "i", "o", "n", " ", "c", "a", "l", "l", "i", "n", "g", " ", "m", "o", "d", "e">>]

\* line 172: the assertion on agent.tool_choice fails
ToolChoiceAssertion(tool_choice) ==
    [type |-> "AssertionError",
     msg |-> <<"N", "o", "n", "-", "f", "u", "n", "c", "t", "i", "o", "n", " ", "c", "a", "l", "l", "i", "n", "g", " ", "m", "o", "d", "e", " ", "M", "U", "S", "T", " ", "u", "s", "e", " ", "t", "o", "o", "l", "_", "c", "h", "o", "i", "c", "e", " ", "=", " ", "'", "r", "e", "q", "u", "i", "r", "e", "d", "'", " ", "r", "a", "t", "h", "e", "r", " ", "t", "h", "a", "n", " ">>
             \o ToolChoiceText(tool_choice)]

\* mutant: the mode follows what the model supports
FunctionCallingMode_FromCapability(e, model) == SupportsFunctionCalling(model)

\* line 146: if FN_CALL
FunctionCallingMode(e, model) == e.FN_CALL

\* mutant: textual mode accepts every tool_choice
TextualAllowed_Always(tool_choice) == TRUE

\* line 172: agent.tool_choice == "required"
TextualAllowed(tool_choice) == tool_choice = "required"

\* lines 146-170, native mode: the request is built and completion is called
CallNative(model_override, stream) ==
    LET model == CreateModel(model_override)
        tools == ToolsFor(model)
        msgs == IF NoSenderMode(model) THEN DropSenders(MessagesOf) ELSE MessagesOf
        base == [model |-> model, messages |-> msgs, tools |-> tools,
                 tool_choice |-> agent.tool_choice, stream |-> stream]
        params == IF tools # <<>> /\ StartsWith(model, Str_gpt)
                  THEN [x \in (DOMAIN base) \cup {"parallel_tool_calls"} |->
                           IF x = "parallel_tool_calls"
                           THEN agent.parallel_tool_calls ELSE base[x]]
                  ELSE base
    IN /\ dpc = "idle"
       /\ FunctionCallingMode(env, model)
       /\ builtTools' = ToolsBuilt
       /\ IF SupportsFunctionCalling(model)
          THEN /\ request' = Append(request, params)
               /\ agent' = [agent EXCEPT !.examples = ExamplesOf(msgs)]
               /\ history' = HistoryOf(msgs)
               /\ dpc' = "calling"
               /\ raisedExc' = raisedExc
          ELSE /\ raisedExc' = ModelAssertion(model)
               /\ dpc' = "raised"
               /\ UNCHANGED <<request, agent, history>>
       /\ UNCHANGED <<exc, verdict, env, response>>
       /\ UNCHANGED notDispVars

\* lines 171-196, textual mode: the request is built and completion is called
CallTextual(model_override, stream) ==
    LET model == CreateModel(model_override)
        tools == ToolsFor(model)
        told == AppendToLast(MessagesOf, TextualSuffix(tools))
        shared == IF NoSenderMode(model) THEN DropSenders(told) ELSE told
        plain == IF env.NON_FN_CALL
                 THEN ConvertFnMessagesToNonFnMessages(shared) ELSE shared
        msgs == IF env.ADD_USER /\ plain[Len(plain)].role # "user"
                THEN InterleaveUserIntoMessages(plain) ELSE plain
    IN /\ dpc = "idle"
       /\ ~FunctionCallingMode(env, model)
       /\ builtTools' = ToolsBuilt
       /\ IF TextualAllowed(agent.tool_choice)
          THEN /\ request' = Append(request,
                      [model |-> model, messages |-> msgs, stream |-> stream,
                       base_url |-> API_BASE_URL])
               /\ agent' = [agent EXCEPT !.examples = ExamplesOf(shared)]
               /\ history' = HistoryOf(shared)
               /\ dpc' = "calling"
               /\ raisedExc' = raisedExc
          ELSE /\ raisedExc' = ToolChoiceAssertion(agent.tool_choice)
               /\ dpc' = "raised"
               /\ UNCHANGED <<request, agent, history>>
       /\ UNCHANGED <<exc, verdict, env, response>>
       /\ UNCHANGED notDispVars

\* the message of the provider's answer
CompletionMessage == [role |-> "assistant", content |-> Str(<<"Done">>)]

\* lines 170/196-202: completion returns; with stream the raw response is
\* returned, otherwise the message of its first choice
ProviderReturns(message) ==
    /\ dpc = "calling"
    /\ response' = IF request[Len(request)].stream
                   THEN [raw |-> TRUE, message |-> message]
                   ELSE message
    /\ dpc' = "returned"
    /\ UNCHANGED <<exc, verdict, env, agent, history, builtTools, request,
                   raisedExc>>
    /\ UNCHANGED notDispVars

Str_ConnectionError == <<"C", "o", "n", "n", "e", "c", "t", "i", "o", "n", " ", "e", "r", "r", "o", "r", ".">>

Str_InvalidApiKey == <<"i", "n", "v", "a", "l", "i", "d", " ", "a", "p", "i", " ", "k", "e", "y">>

\* the exceptions the provider call raises in the model
ProviderErrors ==
    {[type |-> "ConnectError", msg |-> <<>>],
     [type |-> "Exception", msg |-> Str_ConnectionError],
     [type |-> "Exception", msg |-> Str_InvalidApiKey]}

\* lines 170/196: completion raises; nothing in get_chat_completion catches
\* the exception or calls completion again, so it leaves the method
ProviderRaises(e) ==
    /\ dpc = "calling"
    /\ raisedExc' = e
    /\ dpc' = "raised"
    /\ UNCHANGED <<exc, verdict, env, agent, history, builtTools, request,
                   response>>
    /\ UNCHANGED notDispVars

\* the dispatcher before any call, with nothing given to it
DispIdle ==
    /\ exc = NoException
    /\ verdict = "unset"
    /\ env = [FN_CALL |-> TRUE, NON_FN_CALL |-> FALSE, ADD_USER |-> FALSE]
    /\ agent = [functions |-> <<>>, model |-> Model_gpt4o, examples |-> <<>>,
                tool_choice |-> "auto", parallel_tool_calls |-> TRUE]
    /\ history = <<>>
    /\ dpc = "idle"
    /\ builtTools = <<>>
    /\ request = <<>>
    /\ raisedExc = NoException
    /\ response = Null

(***************************************************************************)
(* The converter (framework/fn_call_converter.py) applied by a caller to   *)
(* the message lists of the model.                                         *)
(***************************************************************************)
\* a tool call of an assistant message, as the provider returns it
ToolCall(id, type, name, arguments) ==
    [id |-> id, type |-> type,
     function |-> [name |-> Str(name), arguments |-> Str(arguments)]]

Call_greet == ToolCall("call_1", "function", <<"g", "r", "e", "e", "t">>, <<"{", "\"", "n", "a", "m", "e", "\"", ":", " ", "\"", "B", "o", "b", "\"", "}">>)

\* nested arguments
Call_plan == ToolCall("call_2", "function", <<"p", "l", "a", "n">>, <<"{", "\"", "s", "t", "e", "p", "s", "\"", ":", " ", "[", "1", ",", " ", "{", "\"", "i", "d", "\"", ":", " ", "n", "u", "l", "l", "}", "]", ",", " ", "\"", "d", "r", "y", "\"", ":", " ", "t", "r", "u", "e", "}">>)

\* an argument that holds a code fence
Call_write_file == ToolCall("call_3", "function", <<"w", "r", "i", "t", "e", "_", "f", "i", "l", "e">>, <<"{", "\"", "c", "o", "n", "t", "e", "n", "t", "\"", ":", " ", "\"", Backtick, Backtick, Backtick, "\"", "}">>)

\* a tool call whose type is not "function"
Call_custom == ToolCall("call_4", "custom", <<"g", "r", "e", "p">>, <<"{", "}">>)

\* arguments cut off before the end of the JSON text
Call_cut == ToolCall("call_5", "function", <<"g", "r", "e", "e", "t">>, <<"{", "\"", "n", "a", "m", "e", "\"", ":", " ">>)

ToolCallSamples == {Call_greet, Call_plan, Call_write_file, Call_custom, Call_cut}

ToolCallLists == UNION {[1..n -> ToolCallSamples] : n \in 0..MaxCalls}

\* assistant messages in native form
NativeMessages ==
    {[role |-> "assistant", content |-> c, tool_calls |-> q] :
        c \in {Null, Str(<<"O", "K">>)}, q \in ToolCallLists}

\* a fenced tool block around a body
ToolBlock(body) == ToolFence \o <<"\n">> \o body \o <<"\n">> \o Fence

\* the tool call extract_tool_calls_from_content is to return for a block
ExpectedCall(name, arguments) ==
    [type |-> "function",
     function |-> [name |-> name, arguments |-> Str(arguments)]]

(***************************************************************************)
(* The segments texts are made of: the characters of the segment, and the  *)
(* tool calls that are to be extracted from it.                            *)
(***************************************************************************)
\* prose
Seg_prose ==
    [text |-> <<"H", "i">>,
     calls |-> <<>>]

\* a well-formed block
Seg_greet ==
    [text |-> ToolBlock(<<"{", "\"", "n", "a", "m", "e", "\"", ":", " ", "\"", "g", "r", "e", "e", "t", "\"", ",", " ", "\"", "a", "r", "g", "u", "m", "e", "n", "t", "s", "\"", ":", " ", "{", "\"", "n", "a", "m", "e", "\"", ":", " ", "\"", "B", "o", "b", "\"", "}", "}">>),
     calls |-> <<ExpectedCall(Str(<<"g", "r", "e", "e", "t">>), <<"{", "\"", "n", "a", "m", "e", "\"", ":", " ", "\"", "B", "o", "b", "\"", "}">>)>>]

\* a well-formed block: the keys in the other order, a list as arguments
Seg_add ==
    [text |-> ToolBlock(<<"{", "\"", "a", "r", "g", "u", "m", "e", "n", "t", "s", "\"", ":", "[", "1", ",", "2", "]", ",", "\"", "n", "a", "m", "e", "\"", ":", "\"", "a", "d", "d", "\"", "}">>),
     calls |-> <<ExpectedCall(Str(<<"a", "d", "d">>), <<"[", "1", ",", " ", "2", "]">>)>>]

\* a well-formed block: the name is a number, the arguments are a string
Seg_number_name ==
    [text |-> ToolBlock(<<"{", "\"", "n", "a", "m", "e", "\"", ":", " ", "5", ",", " ", "\"", "a", "r", "g", "u", "m", "e", "n", "t", "s", "\"", ":", " ", "\"", "x", "\"", "}">>),
     calls |-> <<ExpectedCall(Num(<<"5">>), <<"\"", "x", "\"">>)>>]

\* a well-formed block on one line
Seg_inline ==
    [text |-> ToolFence \o <<" ", "{", "\"", "n", "a", "m", "e", "\"", ":", " ", "\"", "l", "s", "\"", ",", " ", "\"", "a", "r", "g", "u", "m", "e", "n", "t", "s", "\"", ":", " ", "{", "}", "}", " ">> \o Fence,
     calls |-> <<ExpectedCall(Str(<<"l", "s">>), <<"{", "}">>)>>]

\* an object without the arguments key
Seg_no_arguments ==
    [text |-> ToolBlock(<<"{", "\"", "n", "a", "m", "e", "\"", ":", " ", "\"", "g", "r", "e", "e", "t", "\"", "}">>),
     calls |-> <<>>]

\* a JSON list that holds both words
Seg_list ==
    [text |-> ToolBlock(<<"[", "\"", "n", "a", "m", "e", "\"", ",", " ", "\"", "a", "r", "g", "u", "m", "e", "n", "t", "s", "\"", "]">>),
     calls |-> <<>>]

\* a JSON string that holds both words
Seg_string ==
    [text |-> ToolBlock(<<"\"", "n", "a", "m", "e", " ", "a", "r", "g", "u", "m", "e", "n", "t", "s", "\"">>),
     calls |-> <<>>]

\* a JSON number
Seg_number ==
    [text |-> ToolBlock(<<"7">>),
     calls |-> <<>>]

\* the JSON null
Seg_null ==
    [text |-> ToolBlock(<<"n", "u", "l", "l">>),
     calls |-> <<>>]

\* text that is not JSON
Seg_cut ==
    [text |-> ToolBlock(<<"{", "\"", "n", "a", "m", "e", "\"", ":", " ", "\"", "g", "r", "e", "e", "t", "\"", ",", " ">>),
     calls |-> <<>>]

\* a fence inside a JSON string: the block ends there
Seg_fence_inside ==
    [text |-> ToolBlock(<<"{", "\"", "n", "a", "m", "e", "\"", ":", " ", "\"", "w", "r", "i", "t", "e", "_", "f", "i", "l", "e", "\"", ",", " ", "\"", "a", "r", "g", "u", "m", "e", "n", "t", "s", "\"", ":", " ", "{", "\"", "c", "o", "n", "t", "e", "n", "t", "\"", ":", " ", "\"", Backtick, Backtick, Backtick, "\"", "}", "}">>),
     calls |-> <<>>]

\* a fenced block that is not a tool block
Seg_json_fence ==
    [text |-> Fence \o <<"j", "s", "o", "n", "\n", "{", "\"", "n", "a", "m", "e", "\"", ":", " ", "\"", "g", "r", "e", "e", "t", "\"", ",", " ", "\"", "a", "r", "g", "u", "m", "e", "n", "t", "s", "\"", ":", " ", "{", "}", "}", "\n">> \o Fence,
     calls |-> <<>>]

Segments ==
    {Seg_prose, Seg_greet, Seg_add, Seg_number_name,
     Seg_inline, Seg_no_arguments, Seg_list, Seg_string,
     Seg_number, Seg_null, Seg_cut, Seg_fence_inside,
     Seg_json_fence}

SegmentLists == UNION {[1..n -> Segments] : n \in 0..MaxBlocks}

\* the segments on lines of their own
RECURSIVE JoinText(_)
JoinText(q) ==
    IF q = <<>> THEN <<>>
    ELSE IF Len(q) = 1 THEN q[1].text
    ELSE q[1].text \o <<"\n">> \o JoinText(Tail(q))

RECURSIVE JoinCalls(_)
JoinCalls(q) == IF q = <<>> THEN <<>> ELSE q[1].calls \o JoinCalls(Tail(q))

\* a tool block that is never closed
Text_unclosed == ToolFence \o <<"\n", "{", "\"", "n", "a", "m", "e", "\"", ":", " ", "\"", "g", "r", "e", "e", "t", "\"", ",", " ", "\"", "a", "r", "g", "u", "m", "e", "n", "t", "s", "\"", ":", " ", "{", "}", "}">>

\* assistant messages in textual form
TextualMessages ==
    {[role |-> "assistant", content |-> Str(JoinText(q))] : q \in SegmentLists}
    \cup {[role |-> "assistant", content |-> Str(Text_unclosed)]}

ConvMessages ==
    NativeMessages \cup TextualMessages \cup {UserMessage, AssistantMessage}

CoreMessages ==
    {UserMessage, AssistantMessage,
     [role |-> "assistant", content |-> Null, tool_calls |-> <<Call_greet>>],
     [role |-> "assistant", content |-> Str(Seg_greet.text)]}

\* the message lists given to the converter: every message alone, and the
\* lists of up to MaxMsgs core messages
ConvMessageLists ==
    {<<m>> : m \in ConvMessages}
    \cup UNION {[1..n -> CoreMessages] : n \in 0..MaxMsgs}

\* the converter before any call, with nothing given to it
ConvIdle ==
    /\ convIn = <<>>
    /\ convOut = <<>>
    /\ ops = <<>>
    /\ convExc = "none"
    /\ extracted = Null

\* the caller passes its list through convert_fn_messages_to_non_fn_messages
ApplyConvertFn ==
    /\ Len(ops) < MaxOps
    /\ convExc = "none"
    /\ convOut' = ConvertFnMessagesToNonFnMessages(convOut)
    /\ ops' = Append(ops, "to_text")
    /\ UNCHANGED <<convIn, convExc, extracted>>
    /\ UNCHANGED notConvVars

\* the caller passes its list through
\* convert_non_fncall_messages_to_fncall_messages
ApplyConvertNonFncall ==
    /\ Len(ops) < MaxOps
    /\ convExc = "none"
    /\ \E r \in {ConvertNonFncallMessagesToFncallMessages(convOut)} :
        /\ convOut' = IF r.raised = "none" THEN r.msgs ELSE convOut
        /\ convExc' = r.raised
    /\ ops' = Append(ops, "to_calls")
    /\ UNCHANGED <<convIn, extracted>>
    /\ UNCHANGED notConvVars

\* the caller passes its list through interleave_user_into_messages
ApplyInterleave ==
    /\ Len(ops) < MaxOps
    /\ convExc = "none"
    /\ convOut' = InterleaveUserIntoMessages(convOut)
    /\ ops' = Append(ops, "interleave")
    /\ UNCHANGED <<convIn, convExc, extracted>>
    /\ UNCHANGED notConvVars

\* the caller gives the text of its i-th message to
\* extract_tool_calls_from_content
ApplyExtract(i) ==
    /\ extracted = Null
    /\ i \in 1..Len(convIn)
    /\ IsStr(convIn[i].content)
    /\ extracted' = [text |-> convIn[i].content.str,
                     result |-> ExtractToolCallsFromContent(convIn[i].content)]
    /\ UNCHANGED <<convIn, convOut, ops, convExc>>
    /\ UNCHANGED notConvVars

(***************************************************************************)
(* The registries (framework/registry.py, framework/tools/base_tools.py).  *)
(* A registered artifact is a callable, known by its identity.             *)
(***************************************************************************)
Kinds == {"tool", "agent", "plugin_tool", "plugin_agent", "workflow"}
RegNames == {"search", "plan"}
Artifacts == {"f1", "f2"}

\* func.__name__
FuncName(f) == IF f = "f1" THEN "search" ELSE "plan"

\* what dict.get returns for a missing key
NotFound == "None"

\* the registries after construction
RegIdle ==
    /\ registry = [k \in Kinds |-> EmptyDict]
    /\ toolRegistry = EmptyDict
    /\ regLog = <<>>

\* d.get(k)
DictGetOrNone(d, k) == IF k \in DOMAIN d THEN d[k] ELSE NotFound

\* mutant: a name already registered keeps its artifact
Stored_FirstWins(d, name, f) == IF name \in DOMAIN d THEN d ELSE DictSet(d, name, f)

\* Registry.register, lines 54-63, and ToolRegistry.register, line 124
Stored(d, name, f) == DictSet(d, name, f)

\* Registry.register(type, name)(func); name "None" stands for name=None
Register(type, name, f) ==
    LET key == IF name = NotFound THEN FuncName(f) ELSE name IN
    /\ Len(regLog) < MaxRegs
    /\ registry' = [registry EXCEPT ![type] = Stored(@, key, f)]
    /\ regLog' = Append(regLog, [kind |-> type, name |-> key, artifact |-> f])
    /\ UNCHANGED toolRegistry
    /\ UNCHANGED notRegVars

\* ToolRegistry.register(tool), tool a BaseTool with the name given
ToolRegistryRegister(name, f) ==
    /\ Len(regLog) < MaxRegs
    /\ toolRegistry' = Stored(toolRegistry, name, f)
    /\ regLog' = Append(regLog, [kind |-> "base_tool", name |-> name,
                                 artifact |-> f])
    /\ UNCHANGED registry
    /\ UNCHANGED notRegVars

\* Registry.get_tool(name): self.tools.get(name) or self.plugin_tools.get(name)
GetTool(name) ==
    IF DictGetOrNone(registry["tool"], name) # NotFound
    THEN DictGetOrNone(registry["tool"], name)
    ELSE DictGetOrNone(registry["plugin_tool"], name)

\* Registry.get_agent(name)
GetAgent(name) ==
    IF DictGetOrNone(registry["agent"], name) # NotFound
    THEN DictGetOrNone(registry["agent"], name)
    ELSE DictGetOrNone(registry["plugin_agent"], name)

\* Registry.get_workflow(name)
GetWorkflow(name) == DictGetOrNone(registry["workflow"], name)

\* ToolRegistry.get(name)
ToolRegistryGet(name) == DictGetOrNone(toolRegistry, name)

(***************************************************************************)
(* MetaChain.run (framework/core.py).  A function of the agent is a        *)
(* callable: its __name__, whether the object also has an attribute name   *)
(* (a plain def has none), and whether its body raises.                    *)
(***************************************************************************)
RunParams ==
    <<[name |-> "name", annotation |-> "str", has_default |-> TRUE, doc |-> ""],
      [name |-> CtxVarsName, annotation |-> "dict", has_default |-> TRUE,
       doc |-> ""]>>

RunCallables ==
    [name : {"greet", "lookup"}, doc : {""}, params : {RunParams},
     has_name : BOOLEAN, raises : BOOLEAN]

FunctionLists == UNION {[1..n -> RunCallables] : n \in 0..MaxFunctions}

\* the arguments of the tool calls of the provider's message: an object,
\* an empty object, a list, and text cut off before the end
RunArguments ==
    {<<"{", "\"", "n", "a", "m", "e", "\"", ":", " ", "\"", "B", "o", "b", "\"", "}">>, <<"{", "}">>, <<"[", "]">>, <<"{", "\"", "n", "a", "m", "e", "\"", ":", " ">>}

\* the tool calls of the provider's message; the id is the position
RunToolCallLists ==
    UNION {[1..n -> [name : {"greet", "lookup", "missing"},
                     arguments : RunArguments]] : n \in 0..MaxCalls}

RunMessage(q) ==
    [role |-> "assistant", content |-> Null,
     tool_calls |-> [i \in 1..Len(q) |->
                       [id |-> i, type |-> "function",
                        function |-> [name |-> q[i].name,
                                      arguments |-> Str(q[i].arguments)]]]]

RunMessages == {RunMessage(q) : q \in RunToolCallLists} \cup {CompletionMessage}

Key_context_variables == <<"c", "o", "n", "t", "e", "x", "t", "_", "v", "a", "r", "i", "a", "b", "l", "e", "s">>

\* run has not been called
RunIdle ==
    /\ rpc = "idle"
    /\ toolIdx = 0
    /\ toolResults = <<>>
    /\ invoked = <<>>
    /\ runExc = "none"
    /\ runResult = Null

\* lines 227-237: run has been called with context_variables=None and is
\* calling get_chat_completion
RunCalled ==
    /\ rpc = "completion"
    /\ toolIdx = 0
    /\ toolResults = <<>>
    /\ invoked = <<>>
    /\ runExc = "none"
    /\ runResult = Null

\* lines 230-237: an exception of get_chat_completion leaves run
RunCompletionRaises ==
    /\ rpc = "completion"
    /\ dpc = "raised"
    /\ rpc' = "raised"
    /\ runExc' = raisedExc.type
    /\ UNCHANGED <<toolIdx, toolResults, invoked, runResult>>
    /\ UNCHANGED notRunVars

\* lines 239-246: with stream the raw response is returned; otherwise the
\* Response is made and the loop over message.tool_calls begins
RunCompletionReturns ==
    /\ rpc = "completion"
    /\ dpc = "returned"
    /\ IF request[Len(request)].stream
       THEN /\ rpc' = "returned"
            /\ runResult' = response
            /\ toolIdx' = toolIdx
       ELSE /\ rpc' = "tools"
            /\ runResult' = runResult
            /\ toolIdx' = 1
    /\ UNCHANGED <<toolResults, invoked, runExc>>
    /\ UNCHANGED notRunVars

\* message.tool_calls, empty when the message has none
ToolCallsOf(message) ==
    IF "tool_calls" \in DOMAIN message THEN message.tool_calls ELSE <<>>

\* line 253: function.name == function_name, for the functions in order: the
\* first function that matches or that has no attribute name (0: none)
FirstHit(functions, function_name) ==
    LET hits == {j \in 1..Len(functions) :
                    ~functions[j].has_name \/ functions[j].name = function_name}
    IN IF hits = {} THEN 0 ELSE Min(hits)

\* the value a tool function returns
ToolReturn(f, args) == [by |-> f.name, args |-> args]

\* result={"error": f"Function {function_name} not found"}
NotFoundResult(function_name) ==
    [error |-> <<"Function ", function_name, " not found">>]

\* Response.add_tool_result and ToolResult
ToolResult(tool_call_id, name, args, result) ==
    [tool_call_id |-> tool_call_id, name |-> name, args |-> args,
     result |-> result]

\* mutant: an exception of the tool function is caught and the loop goes on
CallRaises_Caught(f) == FALSE

\* line 258: function(**function_args) is called outside any try, so the
\* exception the body of f raises leaves the call
CallRaises(f) == f.raises

\* how the body of the for loop ends for one tool call, lines 247-275
ToolCallOutcome(functions, tool_call) ==
    LET function_name == tool_call.function.name
        Called(j, with_context) ==
            IF CallRaises(functions[j])
            THEN [raised |-> "ToolError",
                  called |-> <<[call |-> tool_call.id, fn |-> j,
                                args |-> with_context]>>,
                  results |-> <<>>]
            ELSE [raised |-> "none",
                  called |-> <<[call |-> tool_call.id, fn |-> j,
                                args |-> with_context]>>,
                  results |-> <<ToolResult(tool_call.id, function_name,
                                           with_context,
                                           ToolReturn(functions[j],
                                                      with_context))>>]
        Looked(function_args, j) ==
            IF ~function_args.ok
            THEN [raised |-> "JSONDecodeError", called |-> <<>>,
                  results |-> <<>>]
            ELSE IF j = 0
            THEN [raised |-> "none", called |-> <<>>,
                  results |-> <<ToolResult(tool_call.id, function_name,
                                           function_args.v,
                                           NotFoundResult(function_name))>>]
            ELSE IF ~functions[j].has_name
            THEN [raised |-> "AttributeError", called |-> <<>>,
                  results |-> <<>>]
            ELSE IF ~IsObj(function_args.v)
            THEN [raised |-> "TypeError", called |-> <<>>, results |-> <<>>]
            ELSE Called(j, Obj(DictPut(function_args.v.obj,
                                       Key_context_variables, Obj(<<>>))))
    IN Looked(JsonLoads(tool_call.function.arguments.str),
              FirstHit(functions, function_name))

\* lines 246-275: the body of the for loop, for the next tool call
RunToolCall ==
    /\ rpc = "tools"
    /\ toolIdx <= Len(ToolCallsOf(response))
    /\ \E o \in {ToolCallOutcome(agent.functions,
                                   ToolCallsOf(response)[toolIdx])} :
          /\ invoked' = invoked \o o.called
          /\ toolResults' = toolResults \o o.results
          /\ runExc' = o.raised
          /\ rpc' = IF o.raised = "none" THEN "tools" ELSE "raised"
          /\ toolIdx' = IF o.raised = "none" THEN toolIdx + 1 ELSE toolIdx
    /\ UNCHANGED runResult
    /\ UNCHANGED notRunVars

\* line 277: return Result(response=response)
RunReturns ==
    /\ rpc = "tools"
    /\ toolIdx > Len(ToolCallsOf(response))
    /\ rpc' = "returned"
    /\ runResult' = [response |-> [message |-> response,
                                    tool_results |-> toolResults]]
    /\ UNCHANGED <<toolIdx, toolResults, invoked, runExc>>
    /\ UNCHANGED notRunVars

\* the caller builds a workflow, runs it and may reset and run it again
WfNext ==
    \/ \E s \in StepIds, d \in DepSets, r \in BOOLEAN, st \in {PENDING, SKIPPED} :
          AddStep(s, d, r, st)
    \/ ExecuteBegin
    \/ NextBatch
    \/ Finish
    \/ StepStart
    \/ StepEnd
    \/ Reset


(***************************************************************************)
(* adapt_tools_for_gemini on tool lists of any shape.                      *)
(***************************************************************************)
\* the schemas of a property: a string, an object without a properties key,
\* an object with an empty properties map, and objects that nest one of
\* these, down to the given depth
RECURSIVE PropertySchemas(_)
PropertySchemas(depth) ==
    LET flat == {[name |-> "a", type |-> "string"],
                 [name |-> "a", type |-> "object"],
                 [name |-> "a", type |-> "object", properties |-> <<>>]}
    IN IF depth = 0 THEN flat
       ELSE flat \cup {[name |-> "a", type |-> "object", properties |-> <<p>>] :
                          p \in PropertySchemas(depth - 1)}

ParameterSchemas ==
    {[type |-> "object"], [type |-> "object", properties |-> <<>>]}
    \cup {[type |-> "object", properties |-> <<p>>] :
             p \in PropertySchemas(MaxNesting - 1)}

GeminiTools ==
    {[type |-> "function", function |-> [name |-> "f"]]}
    \cup {[type |-> "function", function |-> [name |-> "f", parameters |-> s]] :
             s \in ParameterSchemas}

GeminiToolLists == UNION {[1..n -> GeminiTools] : n \in 0..MaxTools}

AdaptInit ==
    /\ toolsIn \in GeminiToolLists
    /\ toolsOut = [called |-> FALSE, tools |-> <<>>]

\* the caller gives its tool list to adapt_tools_for_gemini
ApplyAdapt ==
    /\ ~toolsOut.called
    /\ toolsOut' = [called |-> TRUE, tools |-> AdaptToolsForGemini(toolsIn)]
    /\ UNCHANGED toolsIn
    /\ UNCHANGED notAdaptVars

InitAdapt ==
    /\ WfInit
    /\ DispIdle
    /\ SchemaIdle
    /\ ConvIdle
    /\ RegIdle
    /\ AdaptInit
    /\ CollabIdle
    /\ RunIdle

SpecAdapt == InitAdapt /\ [][ApplyAdapt]_vars

Init ==
    /\ WfInit
    /\ DispIdle
    /\ SchemaIdle
    /\ ConvIdle
    /\ RegIdle
    /\ AdaptIdle
    /\ CollabIdle
    /\ RunIdle

Spec == Init /\ [][WfNext]_vars

\* the caller builds a workflow and runs it, while cancel, pause and resume
\* are called at any moment
ControlNext ==
    \/ \E s \in StepIds, d \in DepSets, r \in BOOLEAN, st \in {PENDING, SKIPPED} :
          AddStep(s, d, r, st)
    \/ ExecuteBegin
    \/ NextBatch
    \/ Finish
    \/ StepStart
    \/ StepEnd
    \/ Cancel
    \/ Pause
    \/ Resume

SpecControl == Init /\ [][ControlNext]_vars

\* Workflow.execute, lines 232-256: one step of the while loop.  The loop
\* runs in the caller's thread and every step function returns or raises,
\* so an execute() that has begun keeps taking steps.
ExecuteStep == NextBatch \/ Finish \/ StepStart \/ StepEnd

SpecLive == Init /\ [][WfNext]_vars /\ WF_vars(ExecuteStep)

\* should_retry_error applied to every exception of the model
RetryInit ==
    /\ exc \in Exceptions
    /\ verdict = "unset"
    /\ env = [FN_CALL |-> TRUE, NON_FN_CALL |-> FALSE, ADD_USER |-> FALSE]
    /\ agent = [functions |-> <<>>, model |-> Model_gpt4o, examples |-> <<>>,
                tool_choice |-> "auto", parallel_tool_calls |-> TRUE]
    /\ history = <<>>
    /\ dpc = "idle"
    /\ builtTools = <<>>
    /\ request = <<>>
    /\ raisedExc = NoException
    /\ response = Null

RetryNext == ShouldRetry

InitRetry ==
    /\ WfInit
    /\ RetryInit
    /\ SchemaIdle
    /\ ConvIdle
    /\ RegIdle
    /\ AdaptIdle
    /\ CollabIdle
    /\ RunIdle

SpecRetry == InitRetry /\ [][RetryNext]_vars

\* annotations of the callables given to the dispatcher
DispatchAnnotations == {"empty", "int", "dict"}

\* get_chat_completion called once, for every agent, mode and model
DispatchInit ==
    /\ exc = NoException
    /\ verdict = "unset"
    /\ env \in [FN_CALL : BOOLEAN, NON_FN_CALL : {FALSE}, ADD_USER : {FALSE}]
    /\ agent \in [functions : {<<>>} \cup {<<f>> : f \in Callables(DispatchAnnotations)},
                   model : {Model_gpt4o}, examples : {<<>>},
                   tool_choice : {"auto", "required"},
                   parallel_tool_calls : {TRUE}]
    /\ history \in {<<UserMessage>>, <<UserMessage, AssistantMessage>>}
    /\ dpc = "idle"
    /\ builtTools = <<>>
    /\ request = <<>>
    /\ raisedExc = NoException
    /\ response = Null

DispatchNext ==
    \/ \E mo \in {<<>>} \cup Models, stream \in BOOLEAN : CallNative(mo, stream)
    \/ \E mo \in {<<>>} \cup Models, stream \in BOOLEAN : CallTextual(mo, stream)
    \/ ProviderReturns(CompletionMessage)
    \/ \E e \in ProviderErrors : ProviderRaises(e)

\* the caller calls get_chat_completion again with the same agent and the
\* same history list, as run does for every turn (core.py 230-237)
CallAgain ==
    /\ dpc \in {"returned", "raised"}
    /\ Len(request) < MaxDispatches
    /\ dpc' = "idle"
    /\ raisedExc' = NoException
    /\ response' = Null
    /\ UNCHANGED <<exc, verdict, env, agent, history, builtTools, request>>
    /\ UNCHANGED notDispVars

RedispatchNext ==
    \/ \E mo \in {<<>>, Model_claude}, stream \in {FALSE} : CallNative(mo, stream)
    \/ \E mo \in {<<>>, Model_claude}, stream \in {FALSE} : CallTextual(mo, stream)
    \/ ProviderReturns(CompletionMessage)
    \/ \E e \in ProviderErrors : ProviderRaises(e)
    \/ CallAgain

InitDispatch ==
    /\ WfInit
    /\ DispatchInit
    /\ SchemaIdle
    /\ ConvIdle
    /\ RegIdle
    /\ AdaptIdle
    /\ CollabIdle
    /\ RunIdle

SpecDispatch == InitDispatch /\ [][DispatchNext]_vars

\* get_chat_completion called several times over the same history
SpecRedispatch == InitDispatch /\ [][RedispatchNext]_vars

\* function_to_json applied to every callable of the model
SchemaInit == func \in Callables(Annotations) /\ contract = Null

SchemaNext == BuildContract

InitSchema ==
    /\ WfInit
    /\ DispIdle
    /\ SchemaInit
    /\ ConvIdle
    /\ RegIdle
    /\ AdaptIdle
    /\ CollabIdle
    /\ RunIdle

SpecSchema == InitSchema /\ [][SchemaNext]_vars

\* the converter applied to every message list of the model
ConvInit ==
    /\ convIn \in ConvMessageLists
    /\ convOut = convIn
    /\ ops = <<>>
    /\ convExc = "none"
    /\ extracted = Null

ConvNext ==
    \/ ApplyConvertFn
    \/ ApplyConvertNonFncall
    \/ ApplyInterleave
    \/ \E i \in 1..MaxMsgs : ApplyExtract(i)

InitConvert ==
    /\ WfInit
    /\ DispIdle
    /\ SchemaIdle
    /\ ConvInit
    /\ RegIdle
    /\ AdaptIdle
    /\ CollabIdle
    /\ RunIdle

SpecConvert == InitConvert /\ [][ConvNext]_vars

\* registrations made in any order on both registries
RegNext ==
    \/ \E type \in Kinds, name \in RegNames \cup {NotFound}, f \in Artifacts :
          Register(type, name, f)
    \/ \E name \in RegNames, f \in Artifacts : ToolRegistryRegister(name, f)

SpecRegistry == Init /\ [][RegNext]_vars

\* run called once, in native mode, for every agent and provider message
RunInit ==
    /\ exc = NoException
    /\ verdict = "unset"
    /\ env = [FN_CALL |-> TRUE, NON_FN_CALL |-> FALSE, ADD_USER |-> FALSE]
    /\ agent \in [functions : FunctionLists, model : {Model_gpt4o},
                   examples : {<<>>}, tool_choice : {"auto"},
                   parallel_tool_calls : {TRUE}]
    /\ history = <<UserMessage>>
    /\ dpc = "idle"
    /\ builtTools = <<>>
    /\ request = <<>>
    /\ raisedExc = NoException
    /\ response = Null

RunNext ==
    \/ \E mo \in {<<>>, Model_o1}, stream \in BOOLEAN : CallNative(mo, stream)
    \/ \E message \in RunMessages : ProviderReturns(message)
    \/ \E e \in ProviderErrors : ProviderRaises(e)
    \/ RunCompletionRaises
    \/ RunCompletionReturns
    \/ RunToolCall
    \/ RunReturns

InitRun ==
    /\ WfInit
    /\ RunInit
    /\ SchemaIdle
    /\ ConvIdle
    /\ RegIdle
    /\ AdaptIdle
    /\ CollabIdle
    /\ RunCalled

SpecRun == InitRun /\ [][RunNext]_vars

(***************************************************************************)
(* CollaborationService (services/collaboration_service.py).  Its          *)
(* operations are coroutines of one event loop: a coroutine runs alone     *)
(* from one await to the next, and any other coroutine may run while it    *)
(* is suspended at an await.  A session is an object: sessions maps the    *)
(* document id to the object, participants holds the set of each object.   *)
(***************************************************************************)
Doc == "doc"
WebSockets == {"w1", "w2", "w3"}

\* a coroutine: the operation, its websocket argument, where it stands, the
\* exception that ended it, and for broadcast_changes the session object it
\* holds, the participants its for loop has yielded and the size of the set
\* when the iteration began
Task(op, ws, at, e, session, seen, size) ==
    [op |-> op, ws |-> ws, pc |-> at, exc |-> e, session |-> session,
     seen |-> seen, size |-> size]

\* the participants of the session stored under the document id
Participants == IF Doc \in DOMAIN sessions THEN participants[sessions[Doc]] ELSE {}

\* join_session, lines 19-21: the session is created when the document has
\* none, and the coroutine is suspended at await websocket.accept()
JoinSession(ws) ==
    /\ Len(tasks) < MaxTasks
    /\ IF Doc \in DOMAIN sessions
       THEN UNCHANGED <<sessions, participants>>
       ELSE /\ participants' = Append(participants, {})
            /\ sessions' = [d \in {Doc} |-> Len(participants) + 1]
    /\ tasks' = Append(tasks, Task("join", ws, "accept", "none", 0, {}, 0))
    /\ UNCHANGED notCollabVars

\* join_session, line 22: accept() has returned;
\* self.sessions[document_id].participants.add(websocket) looks the session
\* up again and raises KeyError when the document has none
JoinResumes(t) ==
    /\ tasks[t].op = "join"
    /\ tasks[t].pc = "accept"
    /\ IF Doc \in DOMAIN sessions
       THEN /\ participants' = [participants EXCEPT
                                  ![sessions[Doc]] = @ \cup {tasks[t].ws}]
            /\ tasks' = [tasks EXCEPT ![t].pc = "done"]
       ELSE /\ participants' = participants
            /\ tasks' = [tasks EXCEPT ![t].pc = "failed", ![t].exc = "KeyError"]
    /\ UNCHANGED sessions
    /\ UNCHANGED notCollabVars

\* leave_session, lines 26-29: no await, the coroutine runs to its end.
\* set.remove raises KeyError for a websocket that is no participant.
LeaveSession(ws) ==
    /\ Len(tasks) < MaxTasks
    /\ IF Doc \notin DOMAIN sessions
       THEN /\ UNCHANGED <<sessions, participants>>
            /\ tasks' = Append(tasks, Task("leave", ws, "done", "none", 0, {}, 0))
       ELSE IF ws \notin Participants
       THEN /\ UNCHANGED <<sessions, participants>>
            /\ tasks' = Append(tasks, Task("leave", ws, "failed", "KeyError", 0, {}, 0))
       ELSE /\ participants' = [participants EXCEPT ![sessions[Doc]] = @ \ {ws}]
            /\ sessions' = IF Participants = {ws} THEN [d \in {} |-> 0] ELSE sessions
            /\ tasks' = Append(tasks, Task("leave", ws, "done", "none", 0, {}, 0))
    /\ UNCHANGED notCollabVars

\* broadcast_changes, lines 38-40: the for loop asks the set iterator for
\* the next participant.  The iterator raises RuntimeError when the size of
\* the set is not the size it had when the iteration began; the sender is
\* passed over without an await; at any other participant the coroutine is
\* suspended at await participant.send_text(changes).  The order of a set
\* is not defined: any participant not yet yielded may be the next.
NextParticipant(task) ==
    LET rest == (participants[task.session] \ task.seen) \ {task.ws} IN
    IF Cardinality(participants[task.session]) # task.size
    THEN {[task EXCEPT !.pc = "failed", !.exc = "RuntimeError"]}
    ELSE IF rest = {} THEN {[task EXCEPT !.pc = "done"]}
    ELSE {[task EXCEPT !.pc = "send", !.seen = @ \cup {p}] : p \in rest}

\* broadcast_changes, lines 33-40, up to its first await: without a session
\* nothing is done; otherwise the coroutine keeps the session object, sets
\* its content and begins the loop over session.participants
BroadcastChanges(sender) ==
    /\ Len(tasks) < MaxTasks
    /\ IF Doc \notin DOMAIN sessions
       THEN tasks' = Append(tasks, Task("broadcast", sender, "done", "none", 0, {}, 0))
       ELSE \E task \in NextParticipant(
                          Task("broadcast", sender, "start", "none",
                               sessions[Doc], {}, Cardinality(Participants))) :
               tasks' = Append(tasks, task)
    /\ UNCHANGED <<sessions, participants>>
    /\ UNCHANGED notCollabVars

\* broadcast_changes, lines 38-40: send_text has returned and the for loop
\* goes on
BroadcastResumes(t) ==
    /\ tasks[t].op = "broadcast"
    /\ tasks[t].pc = "send"
    /\ \E task \in NextParticipant(tasks[t]) : tasks' = [tasks EXCEPT ![t] = task]
    /\ UNCHANGED <<sessions, participants>>
    /\ UNCHANGED notCollabVars

\* a websocket a join_session is suspended for
Joining(ws) ==
    \E t \in 1..Len(tasks) :
        tasks[t].op = "join" /\ tasks[t].ws = ws /\ tasks[t].pc = "accept"

\* the handlers of the connections call the service: a websocket joins when
\* it is no participant and is not joining, and leaves or broadcasts only
\* while it is a participant of the stored session
CollabNext ==
    \/ \E ws \in WebSockets : ws \notin Participants /\ ~Joining(ws) /\ JoinSession(ws)
    \/ \E t \in 1..Len(tasks) : JoinResumes(t)
    \/ \E ws \in WebSockets : ws \in Participants /\ LeaveSession(ws)
    \/ \E ws \in WebSockets : ws \in Participants /\ BroadcastChanges(ws)
    \/ \E t \in 1..Len(tasks) : BroadcastResumes(t)

SpecCollab == Init /\ [][CollabNext]_vars

(***************************************************************************)
(* Properties of the workflow engine.                                      *)
(***************************************************************************)
Steps == Range(order)

\* execute has returned at least once since construction or the last reset()
\* and the caller has not started another operation
ExecuteReturned == pc = "idle" /\ sinceReset >= 1

\* C1: a step is set to RUNNING only at a moment when every id in its
\* dependencies names a step of the workflow whose status is COMPLETED.
C1_RunningOnlyAfterDependencies ==
    [][\A s \in StepIds :
          (stepStatus'[s] = RUNNING /\ stepStatus[s] # RUNNING) =>
              \A d \in deps[s] : d \in Steps /\ stepStatus[d] = COMPLETED]_vars

\* C1 witness: a step with two dependencies is RUNNING, both are COMPLETED.
C1_Witness ==
    \E c \in Steps :
        /\ stepStatus[c] = RUNNING
        /\ Cardinality(deps[c] \ {c}) = 2
        /\ \A d \in deps[c] : d \in Steps /\ stepStatus[d] = COMPLETED

\* the workflow of C2: a and b have no dependencies, c depends on b, the
\* function of b raises and the function of a returns; no step is SKIPPED
C2_Case(a, b, c) ==
    /\ {a, b, c} = StepIds /\ Steps = StepIds
    /\ a # b /\ b # c /\ a # c
    /\ deps[a] = {} /\ deps[b] = {} /\ deps[c] = {b}
    /\ fnRaises[b] /\ ~fnRaises[a]
    /\ \A s \in Steps : stepStatus[s] # SKIPPED

\* C2: with A and B independent and C depending on B, if B's function raises
\* then when execute returns B is FAILED, C was never RUNNING and never in a
\* ready set, the workflow is FAILED, A is COMPLETED and the returned map
\* holds A's successful result under A's id.
C2_FailurePropagation ==
    \A a, b, c \in StepIds :
        (C2_Case(a, b, c) /\ ExecuteReturned) =>
            /\ stepStatus[b] = FAILED
            /\ ~started[c] /\ stepStatus[c] = PENDING /\ c \notin readyLog
            /\ wfStatus = FAILED
            /\ stepStatus[a] = COMPLETED
            /\ a \in DOMAIN returned
            /\ returned[a].success
            /\ returned[a].data.by = a

\* C2 witness: execute has returned on the workflow of C2, in a dict order
\* where the failing step B precedes A.
C2_Witness ==
    /\ ExecuteReturned
    /\ C2_Case("s2", "s1", "s3")
    /\ stepStatus["s1"] = FAILED

\* C3: when execute returns, the workflow is COMPLETED if and only if every
\* step is COMPLETED or SKIPPED (also with no steps); otherwise it is FAILED.
C3_TerminalStatus ==
    ExecuteReturned =>
        /\ wfStatus \in {COMPLETED, FAILED}
        /\ wfStatus = COMPLETED <=>
              (Steps \subseteq {s \in StepIds : stepStatus[s] = COMPLETED
                                                 \/ stepStatus[s] = SKIPPED})

\* C3 witness: execute returned COMPLETED on a workflow with a SKIPPED and
\* a COMPLETED step.
C3_Witness ==
    /\ ExecuteReturned
    /\ wfStatus = COMPLETED
    /\ \E s, u \in Steps : stepStatus[s] = SKIPPED /\ stepStatus[u] = COMPLETED

\* no step of the workflow can still become ready
NoStepReady ==
    \A s \in Steps :
        stepStatus[s] = PENDING =>
            \E d \in deps[s] : d \notin Steps \/ stepStatus[d] # COMPLETED

\* C4 as stated: execute ends FAILED if and only if at least one step is
\* FAILED and no further step can become ready.
C4_FailedIffFailedStep ==
    ExecuteReturned =>
        (wfStatus = FAILED <=>
            ((\E s \in Steps : stepStatus[s] = FAILED) /\ NoStepReady))

\* C4 amended: execute ends FAILED if and only if, no further step being
\* able to become ready, at least one step is FAILED or still PENDING; a
\* FAILED step always gives FAILED, and a PENDING step left behind is
\* blocked by a dependency that is not a COMPLETED step of the workflow.
C4_FailedIffStepLeft ==
    ExecuteReturned =>
        /\ NoStepReady
        /\ \A s \in Steps : stepStatus[s] # RUNNING
        /\ wfStatus = FAILED <=>
              (\E s \in Steps : stepStatus[s] \in {FAILED, PENDING})
        /\ (\E s \in Steps : stepStatus[s] = FAILED) => wfStatus = FAILED

\* C4 witness: execute returned FAILED although no step is FAILED: a step
\* is PENDING behind a cycle, an unknown id or a SKIPPED step.
C4_Witness ==
    /\ ExecuteReturned
    /\ wfStatus = FAILED
    /\ \A s \in Steps : stepStatus[s] # FAILED
    /\ \E s \in Steps : \E d \in deps[s] : d \in Steps /\ stepStatus[d] = SKIPPED
    /\ \E s \in Steps : \E d \in deps[s] : d \notin Steps
    /\ \E s \in Steps : s \in deps[s]

\* C5: the context a step function receives holds no entry of another step
\* of the same ready batch, and a step's entry is written to the shared
\* context only once its function has returned.
C5_BatchIsolation ==
    /\ pc = "infn" =>
          \A t \in Range(readySteps) \ {readySteps[idx]} :
              t \notin DOMAIN seenCtx[readySteps[idx]]
    /\ \A s \in Steps :
          (s \in DOMAIN context /\ started[s]) =>
              stepStatus[s] \in {COMPLETED, FAILED}

\* reset() has left the workflow in its initial state
Cleared ==
    /\ wfStatus = PENDING
    /\ context = EmptyDict
    /\ \A s \in Steps :
          stepStatus[s] = PENDING /\ stepResult[s] = Null /\ ~started[s]

\* the execute that followed reset() ended as the execute before it
SameAsBeforeReset ==
    (ExecuteReturned /\ prevRun # Null) =>
        wfStatus = prevRun.status /\ returned = prevRun.results

\* C6 as stated: reset() after execute sets workflow and steps back to
\* PENDING and clears results and context, a second reset() changes nothing
\* more, and the following execute reaches the same terminal status and the
\* same step results as the first execute.
C6_ResetThenSameRun ==
    [][/\ Reset => Cleared'
       /\ (Reset /\ Cleared) =>
             UNCHANGED <<wfStatus, context, stepStatus, stepResult, started>>
       /\ SameAsBeforeReset']_vars

\* C6 amended: as C6, but the following execute repeats the first one only
\* when no step was SKIPPED at reset(): reset() makes a SKIPPED step PENDING
\* and the following execute runs it.
C6_ResetThenSameRunUnlessSkipped ==
    [][/\ Reset => Cleared'
       /\ (Reset /\ Cleared) =>
             UNCHANGED <<wfStatus, context, stepStatus, stepResult, started>>
       /\ (prevRun' # Null /\ \A s \in Steps : prevRun'.stepStatus[s] # SKIPPED)
             => SameAsBeforeReset']_vars

\* C6 witness: a workflow that reached COMPLETED with a step that read the
\* result of another was reset and executed again, and is COMPLETED again.
C6_Witness ==
    /\ ExecuteReturned
    /\ prevRun # Null
    /\ prevRun.status = COMPLETED
    /\ wfStatus = COMPLETED
    /\ \A s \in Steps : prevRun.stepStatus[s] = COMPLETED
    /\ \E s \in Steps : returned[s].data.saw # {}

\* C7: while the workflow status is CANCELLED no step that has not started
\* is set to RUNNING.
C7_CancelStopsScheduling ==
    [][wfStatus = CANCELLED =>
          \A s \in StepIds :
              stepStatus[s] # RUNNING => stepStatus'[s] # RUNNING]_vars

\* the moves of a step status that the engine makes
C17_EngineMove(a, b) ==
    \/ a = PENDING /\ b = RUNNING
    \/ a = RUNNING /\ b \in {COMPLETED, FAILED}

\* C17: once execute has been called, the status of a step changes only
\* along PENDING -> RUNNING -> COMPLETED or FAILED; COMPLETED, FAILED and
\* SKIPPED are kept until reset(); the engine never assigns SKIPPED; and a
\* PENDING step one of whose dependencies is FAILED stays PENDING.
C17_StatusTransitions ==
    [][nExec >= 1 =>
          \A s \in Steps :
              /\ stepStatus'[s] # stepStatus[s] =>
                    \/ C17_EngineMove(stepStatus[s], stepStatus'[s])
                    \/ Reset /\ stepStatus'[s] = PENDING
              /\ (stepStatus[s] \in {COMPLETED, FAILED, SKIPPED} /\ ~Reset)
                    => stepStatus'[s] = stepStatus[s]
              /\ stepStatus'[s] = SKIPPED => stepStatus[s] = SKIPPED
              /\ (/\ stepStatus[s] = PENDING
                  /\ \E d \in deps[s] : d \in Steps /\ stepStatus[d] = FAILED
                  /\ ~Reset)
                    => stepStatus'[s] = PENDING]_vars

\* C17 witness: a second execute has returned without reset(): a step is
\* still FAILED, a step that depends on it still PENDING, a third SKIPPED.
C17_Witness ==
    /\ ExecuteReturned
    /\ nExec = 2 /\ sinceReset = 2
    /\ \E s, u, v \in Steps :
          /\ stepStatus[s] = FAILED
          /\ s \in deps[u] /\ stepStatus[u] = PENDING
          /\ stepStatus[v] = SKIPPED

\* C18, the test of one step, spelled by the statuses that block it
C18_Blocked(d) ==
    \/ d \notin Steps
    \/ stepStatus[d] \in {PENDING, RUNNING, FAILED, SKIPPED}

\* C18: get_ready_steps returns exactly the PENDING steps every dependency
\* id of which names a COMPLETED step of the workflow (a step without
\* dependencies is ready when PENDING), each once, and it changes no step,
\* no status and no context.
C18_ReadySetExact ==
    [][(pc = "loop" /\ pc' # "loop") =>
          LET ready == {s \in Steps :
                           /\ stepStatus[s] = PENDING
                           /\ ~\E d \in deps[s] : C18_Blocked(d)}
          IN /\ pc' = "batch" =>
                   /\ Range(readySteps') = ready
                   /\ Len(readySteps') = Cardinality(ready)
                   /\ UNCHANGED <<wfStatus, context>>
             /\ pc' = "idle" => ready = {}
             /\ UNCHANGED <<order, deps, stepStatus, stepResult, started>>]_vars

\* C18 witness: the ready set holds a step whose dependencies are all
\* COMPLETED and leaves out a PENDING step.
C18_Witness ==
    /\ pc = "batch" /\ idx = 1
    /\ \E s \in Range(readySteps) :
          deps[s] # {} /\ \A d \in deps[s] : stepStatus[d] = COMPLETED
    /\ \E u \in Steps : stepStatus[u] = PENDING /\ u \notin Range(readySteps)

\* C19: execute terminates on every workflow, also with cyclic or
\* unresolvable dependencies: each batch runs steps that were PENDING, at
\* least one, the loop takes at most as many batches as there are steps,
\* execute returns, and on return the status is COMPLETED or FAILED.
C19_ExecuteTerminates ==
    /\ [][/\ (pc = "loop" /\ pc' = "batch") => readySteps' # <<>>
          /\ (pc = "batch" /\ pc' = "infn") =>
                /\ stepStatus[readySteps[idx]] = PENDING
                /\ stepStatus'[readySteps[idx]] = RUNNING]_vars
    /\ [](batches <= Cardinality(Steps))
    /\ [](pc = "loop" => batches <= Cardinality({s \in Steps : started[s]}))
    /\ [](ExecuteReturned => wfStatus \in {COMPLETED, FAILED})
    /\ (pc # "idle") ~> (pc = "idle")

\* C19 witness: execute has returned on a workflow two steps of which
\* depend on each other, after one batch.
C19_Witness ==
    /\ ExecuteReturned
    /\ batches = 1
    /\ \E s, u \in Steps : s # u /\ s \in deps[u] /\ u \in deps[s]

(***************************************************************************)
(* Properties of the completion dispatcher.                                *)
(***************************************************************************)
\* C8: a provider error that should_retry_error classifies as transient
\* leaves get_chat_completion only after the call has been issued again.
C8_TransientErrorRetried ==
    (dpc = "raised" /\ raisedExc \in ProviderErrors
       /\ ShouldRetryError(raisedExc)) => Len(request) >= 2

\* the character c is the letter d, in either case (d is lower-case)
SameLetter(c, d) ==
    c = d \/ \E i \in 1..Len(UpperChars) : UpperChars[i] = c /\ LowerChars[i] = d

\* p occurs in s, letter case ignored
OccursIgnoringCase(p, s) ==
    \E k \in 1..Len(s) :
        /\ k + Len(p) - 1 <= Len(s)
        /\ \A j \in 1..Len(p) : SameLetter(s[k + j - 1], p[j])

C9_ConnectionError == <<"c", "o", "n", "n", "e", "c", "t", "i", "o", "n", " ", "e", "r", "r", "o", "r">>

C9_Substrings ==
    {C9_ConnectionError,
     <<"s", "e", "r", "v", "e", "r", " ", "d", "i", "s", "c", "o", "n", "n", "e", "c", "t", "e", "d">>,
     <<"e", "o", "f", " ", "o", "c", "c", "u", "r", "r", "e", "d">>,
     <<"t", "i", "m", "e", "o", "u", "t">>,
     <<"e", "v", "e", "n", "t", " ", "l", "o", "o", "p", " ", "i", "s", " ", "c", "l", "o", "s", "e", "d">>,
     <<"a", "n", "t", "h", "r", "o", "p", "i", "c", "e", "x", "c", "e", "p", "t", "i", "o", "n">>}

\* C9: should_retry_error returns true exactly when the exception is an
\* APIError, RemoteProtocolError or ConnectError or its message contains, in
\* any letter case, one of the six substrings; "connection error" in any
\* case is retryable, a plain exception saying "invalid api key" is not.
C9_RetryClassification ==
    verdict # "unset" =>
        /\ verdict = "retry" <=>
              \/ exc.type \in {"APIError", "RemoteProtocolError", "ConnectError"}
              \/ \E p \in C9_Substrings : OccursIgnoringCase(p, exc.msg)
        /\ verdict \in {"retry", "fatal"}
        /\ OccursIgnoringCase(C9_ConnectionError, exc.msg) => verdict = "retry"
        /\ (exc.type = "Exception" /\ exc.msg = Str_InvalidApiKey)
              => verdict = "fatal"

\* C9 witness: a plain exception whose message holds "connection error"
\* in another letter case, between other characters, was classified.
C9_Witness ==
    /\ verdict = "retry"
    /\ exc.type = "Exception"
    /\ ~Contains(C9_ConnectionError, exc.msg)
    /\ OccursIgnoringCase(C9_ConnectionError, exc.msg)
    /\ Len(exc.msg) > Len(C9_ConnectionError)

\* a tool schema that exposes the reserved key
ExposesContextVariables(tool) ==
    \/ \E i \in 1..Len(tool.function.parameters.properties) :
          tool.function.parameters.properties[i].name = CtxVarsName
    \/ \E i \in 1..Len(tool.function.parameters.required) :
          tool.function.parameters.required[i] = CtxVarsName

\* a message content that describes a parameter with the reserved name
DescribesContextVariables(content) ==
    \E i \in 1..Len(content.str) : content.str[i] = CtxVarsName

\* C10: neither the contracts built by function_to_json nor the tool
\* schemas (or tool descriptions) that get_chat_completion passes to the
\* provider hold the key context_variables in properties or in required.
C10_ContextVariablesHidden ==
    /\ \A i \in 1..Len(builtTools) : ~ExposesContextVariables(builtTools[i])
    /\ \A r \in 1..Len(request) :
          /\ "tools" \in DOMAIN request[r] =>
                \A i \in 1..Len(request[r].tools) :
                    ~ExposesContextVariables(request[r].tools[i])
          /\ \A m \in 1..Len(request[r].messages) :
                ~DescribesContextVariables(request[r].messages[m].content)

\* C10 witness: a request with a tool was sent for a callable whose
\* context_variables parameter is annotated and has no default.
C10_Witness ==
    /\ dpc = "calling"
    /\ "tools" \in DOMAIN request[1]
    /\ Len(request[1].tools) = 1
    /\ \E i \in 1..Len(agent.functions[1].params) :
          /\ agent.functions[1].params[i].name = CtxVarsName
          /\ agent.functions[1].params[i].annotation = "dict"
          /\ ~agent.functions[1].params[i].has_default
    /\ Len(request[1].tools[1].function.parameters.properties) = 1

(***************************************************************************)
(* function_to_json                                                        *)
(***************************************************************************)
\* the position of the parameter called n in the signature of f
ParamIndex(f, n) == CHOOSE i \in 1..Len(f.params) : f.params[i].name = n

\* C11: for every callable, the properties of the contract function_to_json
\* returns have exactly the callable's parameters other than
\* context_variables as keys, and required lists, without repetition and in
\* declaration order, exactly those of them that have no default value; for
\* (name: str, time_of_day: str = "morning") required is ["name"] and both
\* names are in properties.
C11_RequiredAreTheParamsWithoutDefault ==
    contract # Null =>
        LET parameters == contract.function.parameters
            keys == {parameters.properties[i].name :
                        i \in 1..Len(parameters.properties)}
            required == parameters.required
            declared == {func.params[i].name : i \in 1..Len(func.params)}
        IN /\ keys = declared \ {CtxVarsName}
           /\ Len(parameters.properties) = Cardinality(keys)
           /\ Range(required) =
                {func.params[i].name : i \in
                    {k \in 1..Len(func.params) :
                        /\ ~func.params[k].has_default
                        /\ func.params[k].name # CtxVarsName}}
           /\ \A a, b \in 1..Len(required) :
                a < b => ParamIndex(func, required[a]) < ParamIndex(func, required[b])
           /\ (/\ Len(func.params) = 2
               /\ func.params[1].name = "name"
               /\ ~func.params[1].has_default
               /\ func.params[2].name = "time_of_day"
               /\ func.params[2].has_default)
              => required = <<"name">> /\ keys = {"name", "time_of_day"}

\* the contract of (name: str, time_of_day: str = "morning") has been built
C11_Witness ==
    /\ contract # Null
    /\ Len(func.params) = 2
    /\ func.params[1].name = "name"
    /\ func.params[1].annotation = "str"
    /\ ~func.params[1].has_default
    /\ func.params[2].name = "time_of_day"
    /\ func.params[2].annotation = "str"
    /\ func.params[2].has_default
    /\ contract.function.parameters.required = <<"name">>

(***************************************************************************)
(* The converter                                                           *)
(***************************************************************************)
\* the tool call is one a provider returns for a function: its type is
\* "function" and its arguments are the text of a JSON object
WellFormedCall(c) ==
    /\ c.type = "function"
    /\ JsonLoads(c.function.arguments.str).ok
    /\ IsObj(JsonLoads(c.function.arguments.str).v)

HasToolCalls(m) ==
    /\ m.role = "assistant"
    /\ "tool_calls" \in DOMAIN m
    /\ m.tool_calls # <<>>

\* a message with a non-empty list of tool calls, each of type "function"
\* with a JSON object as arguments
NativeToolCallMessage(m) ==
    /\ HasToolCalls(m)
    /\ \A k \in 1..Len(m.tool_calls) : WellFormedCall(m.tool_calls[k])

\* C12: in a list of messages that either hold text or are assistant
\* messages with a non-empty list of tool calls, each of type "function"
\* with a JSON object as arguments, every such assistant message comes back
\* from convert_fn_messages_to_non_fn_messages followed by
\* convert_non_fncall_messages_to_fncall_messages with a tool_calls list of
\* the same length and order, the same function names and the same parsed
\* arguments.
C12_RoundTrip ==
    (/\ ops = <<"to_text", "to_calls">>
     /\ \A i \in 1..Len(convIn) :
           NativeToolCallMessage(convIn[i]) \/ IsStr(convIn[i].content))
    => /\ convExc = "none"
       /\ Len(convOut) = Len(convIn)
       /\ \A i \in 1..Len(convIn) :
            NativeToolCallMessage(convIn[i])
            => /\ "tool_calls" \in DOMAIN convOut[i]
               /\ Len(convOut[i].tool_calls) = Len(convIn[i].tool_calls)
               /\ \A k \in 1..Len(convIn[i].tool_calls) :
                    /\ convOut[i].tool_calls[k].function.name
                         = convIn[i].tool_calls[k].function.name
                    /\ JsonLoads(convOut[i].tool_calls[k].function.arguments.str)
                         = JsonLoads(convIn[i].tool_calls[k].function.arguments.str)

Last(S) == CHOOSE x \in S : \A y \in S : y <= x

\* the artifact of the most recent registration under kind and name
LastRegistered(kind, name) ==
    LET S == {i \in 1..Len(regLog) :
                regLog[i].kind = kind /\ regLog[i].name = name}
    IN IF S = {} THEN NotFound ELSE regLog[Last(S)].artifact

AllKinds == Kinds \cup {"base_tool"}

\* what the getter for the kind returns for the name
Lookup(kind, name) ==
    CASE kind \in {"tool", "plugin_tool"} -> GetTool(name)
      [] kind \in {"agent", "plugin_agent"} -> GetAgent(name)
      [] kind = "workflow" -> GetWorkflow(name)
      [] kind = "base_tool" -> ToolRegistryGet(name)

\* the kinds that one getter serves
Family(kind) ==
    CASE kind \in {"tool", "plugin_tool"} -> "tool"
      [] kind \in {"agent", "plugin_agent"} -> "agent"
      [] OTHER -> kind

\* C14 as stated: after any sequence of registrations a lookup of
\* (kind, name) returns the artifact of the most recent registration under
\* that kind and name (nothing if there is none), so that a registration
\* under another (kind, name) does not change it.
C14_LookupIsLastRegistered ==
    \A kind \in AllKinds, name \in RegNames :
        Lookup(kind, name) = LastRegistered(kind, name)

\* C14, amended: every store holds, under a name, the artifact of the most
\* recent registration under its kind and that name; get_tool returns the
\* tool under the name and, when there is none, the plugin_tool under it,
\* get_agent likewise, get_workflow and ToolRegistry.get the most recent
\* registration; a registration changes only lookups of its own name and of
\* the kinds served by the same getter.
C14_LastWriteWinsPerStore ==
    /\ [](\A kind \in Kinds, name \in RegNames :
            DictGetOrNone(registry[kind], name) = LastRegistered(kind, name))
    /\ [](\A name \in RegNames :
            /\ ToolRegistryGet(name) = LastRegistered("base_tool", name)
            /\ GetWorkflow(name) = LastRegistered("workflow", name)
            /\ GetTool(name) =
                 IF LastRegistered("tool", name) # NotFound
                 THEN LastRegistered("tool", name)
                 ELSE LastRegistered("plugin_tool", name)
            /\ GetAgent(name) =
                 IF LastRegistered("agent", name) # NotFound
                 THEN LastRegistered("agent", name)
                 ELSE LastRegistered("plugin_agent", name))
    /\ [][\A kind \in AllKinds, name \in RegNames :
            Lookup(kind, name)' # Lookup(kind, name) =>
                /\ regLog'[Len(regLog')].name = name
                /\ Family(regLog'[Len(regLog')].kind) = Family(kind)]_vars

\* two artifacts have been registered as tool under one name, and a
\* plugin_tool under the same name: get_tool returns the second tool
C14_Witness ==
    \E name \in RegNames :
        /\ Len(regLog) = 3
        /\ regLog[1] = [kind |-> "tool", name |-> name, artifact |-> "f1"]
        /\ regLog[2].kind = "plugin_tool"
        /\ regLog[2].name = name
        /\ regLog[3] = [kind |-> "tool", name |-> name, artifact |-> "f2"]
        /\ GetTool(name) = "f2"

(***************************************************************************)
(* MetaChain.run                                                           *)
(***************************************************************************)
\* the tool call names no function of the agent
UnknownTool(tool_call) ==
    \A j \in 1..Len(agent.functions) :
        agent.functions[j].name # tool_call.function.name

\* the arguments of the tool call are the text of a JSON object
ObjectArguments(tool_call) ==
    /\ JsonLoads(tool_call.function.arguments.str).ok
    /\ IsObj(JsonLoads(tool_call.function.arguments.str).v)

\* run is in or past its loop over the tool calls of the message
InToolLoop == rpc = "tools" \/ (rpc \in {"returned", "raised"} /\ toolIdx >= 1)

\* the loop has come to the i-th tool call and is done with it
Handled(i) == toolIdx > i \/ (rpc = "raised" /\ toolIdx = i)

\* C15: in run, a tool call with a JSON object as arguments whose name
\* matches no function of the agent is recorded as a ToolResult with the
\* error mapping that names the function, no function is invoked for it and
\* the loop goes on, so that run returns with one ToolResult per tool call,
\* in the order of the tool calls.
C15_UnknownToolRecorded ==
    InToolLoop =>
        LET calls == ToolCallsOf(response) IN
        /\ \A i \in 1..Len(calls) :
             (UnknownTool(calls[i]) /\ ObjectArguments(calls[i]) /\ Handled(i))
             => /\ rpc # "raised" \/ toolIdx # i
                /\ Len(toolResults) >= i
                /\ toolResults[i].tool_call_id = calls[i].id
                /\ toolResults[i].name = calls[i].function.name
                /\ toolResults[i].result = NotFoundResult(calls[i].function.name)
                /\ \A k \in 1..Len(invoked) : invoked[k].call # calls[i].id
        /\ rpc = "returned" =>
             /\ Len(toolResults) = Len(calls)
             /\ \A i \in 1..Len(calls) : toolResults[i].tool_call_id = calls[i].id

(***************************************************************************)
(* get_chat_completion: the protocol mode                                  *)
(***************************************************************************)
\* C16: in textual mode, get_chat_completion called for an agent whose
\* tool_choice is not "required" ends with the assertion error on
\* tool_choice without any request to the provider; nothing follows the
\* failure, and should_retry_error does not classify it as retryable.
C16_TextualRequiresToolChoice ==
    /\ [][(/\ dpc = "idle"
           /\ dpc' # "idle"
           /\ ~env.FN_CALL
           /\ agent.tool_choice # "required")
          => /\ dpc' = "raised"
             /\ raisedExc' = ToolChoiceAssertion(agent.tool_choice)
             /\ ~ShouldRetryError(raisedExc')
             /\ request' = request
             /\ request' = <<>>]_vars
    /\ [][dpc = "raised" => dpc' = "raised" /\ request' = request]_vars
    /\ [](\A i \in 1..Len(request) :
            "tools" \notin DOMAIN request[i] => agent.tool_choice = "required")

\* a textual call for an agent with tool_choice "auto" has failed
C16_Witness ==
    /\ dpc = "raised"
    /\ ~env.FN_CALL
    /\ agent.tool_choice = "auto"
    /\ raisedExc = ToolChoiceAssertion("auto")
    /\ request = <<>>

\* the request passes the tools structurally to the provider
NativeRequest(r) == "tools" \in DOMAIN r

\* the request is the textual one: no tools parameter, and the last message
\* ends with the description of the tools
TextualRequest(r) ==
    /\ "tools" \notin DOMAIN r
    /\ "tool_choice" \notin DOMAIN r
    /\ \E i \in 1..Len(r.messages[Len(r.messages)].content.str) :
         r.messages[Len(r.messages)].content.str[i] = "\nAvailable tools:\n"

\* C20 as stated: every request get_chat_completion sends is native when the
\* target model supports function calling and textual when it does not.
C20_ModeFromCapability ==
    \A i \in 1..Len(request) :
        /\ SupportsFunctionCalling(request[i].model) => NativeRequest(request[i])
        /\ ~SupportsFunctionCalling(request[i].model) => TextualRequest(request[i])

\* C20, amended: the mode comes from the FN_CALL setting.  With FN_CALL set
\* every request is native and goes to a model that supports function
\* calling, and a call for a model that does not support it ends with the
\* assertion error on the model without any request; with FN_CALL unset
\* every request is textual, whatever the model supports.
C20_ModeFromSetting ==
    /\ [](\A i \in 1..Len(request) :
            IF env.FN_CALL
            THEN /\ NativeRequest(request[i])
                 /\ SupportsFunctionCalling(request[i].model)
            ELSE TextualRequest(request[i]))
    /\ [][(dpc = "idle" /\ dpc' = "raised" /\ env.FN_CALL)
          => /\ \E model \in Models \cup {agent.model} :
                  /\ ~SupportsFunctionCalling(model)
                  /\ raisedExc' = ModelAssertion(model)
             /\ request' = request]_vars
    /\ [][(dpc = "idle" /\ dpc' = "calling")
          => Len(request') = 1]_vars

\* a textual request has gone to a model that supports function calling
C20_Witness ==
    /\ dpc = "calling"
    /\ ~env.FN_CALL
    /\ Len(request) = 1
    /\ TextualRequest(request[1])
    /\ SupportsFunctionCalling(request[1].model)

(***************************************************************************)
(* Workflow engine: a step function that raises.                           *)
(***************************************************************************)
\* the step whose function the for loop of execute is in
StepInFunction == readySteps[idx]

\* every step of the batch the for loop ran has been run
BatchRun(batch, status, began) ==
    \A i \in 1..Len(batch) :
        began[batch[i]] /\ status[batch[i]] \in {COMPLETED, FAILED}

\* C21: when a step function raises during execute, the step ends FAILED
\* with a result whose success flag is false and whose error is the message
\* of the exception, the exception does not leave execute, and the other
\* steps of the ready batch are still run in that batch: the for loop goes
\* on to the next step of the same batch, and leaves a batch only when
\* every step of it was run.
C21_RaisingStepFailsAlone ==
    /\ [](pc # "raised")
    /\ [][(pc = "infn" /\ fnRaises[StepInFunction] /\ pc' # "infn")
          => /\ stepStatus'[StepInFunction] = FAILED
             /\ stepResult'[StepInFunction].success = FALSE
             /\ stepResult'[StepInFunction].error = ExceptionMessage(StepInFunction)
             /\ stepResult'[StepInFunction].data = Null
             /\ pc' \in {"batch", "loop"}
             /\ idx < Len(readySteps)
                   => /\ pc' = "batch"
                      /\ readySteps' = readySteps
                      /\ idx' = idx + 1]_vars
    /\ [][(pc = "infn" /\ pc' = "loop")
          => BatchRun(readySteps, stepStatus', started')]_vars

\* C21 witness: execute returned after one batch in which a step whose
\* function raised was followed by a step that was run and COMPLETED.
C21_Witness ==
    /\ ExecuteReturned
    /\ batches = 1
    /\ Len(order) >= 2
    /\ stepStatus[order[1]] = FAILED
    /\ returned[order[1]].success = FALSE
    /\ returned[order[1]].error = ExceptionMessage(order[1])
    /\ started[order[2]]
    /\ stepStatus[order[2]] = COMPLETED

(***************************************************************************)
(* Workflow engine: the shared context.                                    *)
(***************************************************************************)
\* the data the function of step d returned: what it computes from the
\* context it was given
ReturnedBy(d) == StepFn(d, seenCtx[d])

\* C22: the context a step function is invoked with holds, under the key of
\* each dependency of the step, the data the function of that dependency
\* returned; and when execute has returned, the context holds under the key
\* of every COMPLETED step the data of its result.
C22_ContextHoldsDependencyData ==
    /\ \A s \in Steps :
          started[s] =>
              \A d \in deps[s] :
                  /\ d \in DOMAIN seenCtx[s]
                  /\ seenCtx[s][d] = ReturnedBy(d)
                  /\ seenCtx[s][d] = stepResult[d].data
    /\ ExecuteReturned =>
          \A s \in Steps :
              stepStatus[s] = COMPLETED =>
                  s \in DOMAIN context /\ context[s] = stepResult[s].data

\* C22 witness: execute returned with a COMPLETED step that has two
\* dependencies and whose function read both entries.
C22_Witness ==
    /\ ExecuteReturned
    /\ \E s \in Steps :
          /\ Cardinality(deps[s]) = 2
          /\ stepStatus[s] = COMPLETED
          /\ context[s].saw = deps[s]

\* the steps the for loop of execute has run
StepsRun == {s \in Steps : stepStatus[s] \in {COMPLETED, FAILED}}

\* C29: when execute has returned on a workflow that was freshly created or
\* reset, the keys of the shared context are exactly the ids of the steps
\* that are COMPLETED or FAILED, the entry of a FAILED step is None, and no
\* step that stayed PENDING or SKIPPED has an entry.
C29_ContextKeysAreTheStepsRun ==
    ExecuteReturned =>
        /\ DOMAIN context = StepsRun
        /\ \A s \in Steps :
              /\ stepStatus[s] = FAILED => context[s] = Null
              /\ stepStatus[s] \in {PENDING, SKIPPED} => s \notin DOMAIN context

\* C29 witness: execute returned with a COMPLETED step, a FAILED step and a
\* step that stayed PENDING behind the FAILED one.
C29_Witness ==
    /\ ExecuteReturned
    /\ \E a, b, c \in Steps :
          /\ stepStatus[a] = COMPLETED /\ a \in DOMAIN context
          /\ stepStatus[b] = FAILED /\ b \in DOMAIN context
          /\ stepStatus[c] = PENDING /\ b \in deps[c]

\* C28: without reset(), over any sequence of execute, cancel, pause and
\* resume calls the function of a step is invoked at most once: a step is
\* set RUNNING only if it was never started.  An execute on a workflow that
\* already finished gets an empty ready set, invokes no function and
\* returns the step results the execute before it returned.
C28_StepFunctionInvokedOnce ==
    /\ [][\A s \in StepIds :
            (stepStatus[s] # RUNNING /\ stepStatus'[s] = RUNNING)
                => ~started[s] /\ started'[s]]_vars
    /\ [](sinceReset >= 1 => pc \in {"idle", "loop"})
    /\ [][(sinceReset >= 1 /\ sinceReset' = sinceReset + 1)
            => /\ returned' = returned
               /\ UNCHANGED <<stepStatus, stepResult, started, seenCtx, context>>]_vars

\* C28 witness: a second execute has returned on a workflow that had
\* finished with a COMPLETED and a FAILED step, after a cancel.
C28_Witness ==
    /\ pc = "idle"
    /\ sinceReset = 2
    /\ wfStatus = CANCELLED
    /\ \E a, b \in Steps :
          /\ stepStatus[a] = COMPLETED /\ returned[a].success
          /\ stepStatus[b] = FAILED /\ ~returned[b].success

(***************************************************************************)
(* Converter: interleaving of user messages.                               *)
(***************************************************************************)
\* the list out without the messages at the positions of P
Without(out, P) ==
    LET kept == (1..Len(out)) \ P
        Nth(i) == CHOOSE k \in kept : Cardinality({j \in kept : j < k}) = i - 1
    IN [i \in 1..Cardinality(kept) |-> out[Nth(i)]]

\* P are positions of out at which a "Please continue." user message stands
\* between two assistant messages that are not themselves at positions of P
InsertedAt(out, P) ==
    \A p \in P :
        /\ 1 < p /\ p < Len(out)
        /\ out[p] = PleaseContinue
        /\ p - 1 \notin P /\ out[p - 1].role = "assistant"
        /\ p + 1 \notin P /\ out[p + 1].role = "assistant"

NoAdjacentAssistants(out) ==
    \A i \in 1..(Len(out) - 1) :
        ~(out[i].role = "assistant" /\ out[i + 1].role = "assistant")

\* out is the list in with a user message put between the assistant messages
\* that were adjacent in it
Interleaved(in, out) ==
    /\ NoAdjacentAssistants(out)
    /\ \E P \in SUBSET (1..Len(out)) :
          /\ InsertedAt(out, P)
          /\ Without(out, P) = in

\* C23: the output of interleave_user_into_messages has no two adjacent
\* assistant messages, every message it inserted is the user message
\* "Please continue." standing between two assistant messages that were
\* adjacent in the input, and the output without the inserted messages is
\* the input in its order.
C23_InterleaveSeparatesAssistants ==
    [][ops' = Append(ops, "interleave") => Interleaved(convOut, convOut')]_vars

\* C23 witness: a list of two assistant messages was interleaved.
C23_Witness ==
    /\ ops = <<"interleave">>
    /\ Len(convIn) = 2
    /\ convIn[1].role = "assistant" /\ convIn[2].role = "assistant"
    /\ convOut = <<convIn[1], PleaseContinue, convIn[2]>>

(***************************************************************************)
(* Converter: textual assistant messages made native.                      *)
(***************************************************************************)
\* the valid fenced tool blocks of the text of message m, in order, as tool
\* calls; a message whose content is no text has none
ValidToolBlocks(m) ==
    IF IsStr(ContentOf(m))
    THEN ExtractFromBlocks(FindToolBlocks(ContentOf(m).str, 1)).calls
    ELSE <<>>

\* what the conversion is to make of message m
NativeForm(m) ==
    IF m.role = "assistant" /\ ValidToolBlocks(m) # <<>>
    THEN [role |-> "assistant", content |-> Null,
          tool_calls |-> ValidToolBlocks(m)]
    ELSE m

\* C24: convert_non_fncall_messages_to_fncall_messages returns a list of the
\* same length and order, in which every non-assistant message and every
\* assistant message without a valid fenced tool block is unchanged, and an
\* assistant message with valid fenced tool blocks is replaced by a message
\* with content None and a tool_calls list of those blocks in order.
C24_TextualMadeNative ==
    [][ops' = Append(ops, "to_calls")
          => /\ convExc' = "none"
             /\ Len(convOut') = Len(convOut)
             /\ \A i \in 1..Len(convOut) :
                   i <= Len(convOut') /\ convOut'[i] = NativeForm(convOut[i])]_vars

(***************************************************************************)
(* Properties of adapt_tools_for_gemini.                                   *)
(***************************************************************************)
\* every object-typed schema in s, s included, has a non-empty properties map
RECURSIVE ObjectsHaveProperties(_)
ObjectsHaveProperties(s) ==
    /\ s.type = "object" => ("properties" \in DOMAIN s /\ s.properties # <<>>)
    /\ "properties" \in DOMAIN s =>
          \A i \in 1..Len(s.properties) : ObjectsHaveProperties(s.properties[i])

\* the schema s with the placeholder put in every object-typed schema that
\* has no property, and the schemas that have properties kept
RECURSIVE Filled(_)
Filled(s) ==
    IF s.type # "object" THEN s
    ELSE IF "properties" \in DOMAIN s /\ s.properties # <<>>
    THEN [s EXCEPT !.properties = [i \in 1..Len(@) |-> Filled(@[i])]]
    ELSE [x \in (DOMAIN s) \cup {"properties"} |->
             IF x = "properties" THEN <<DummyProperty>> ELSE s[x]]

\* C25: in the tools adapt_tools_for_gemini returns, every object-typed
\* parameter schema, at the top level and at every depth of nesting inside
\* properties, has a non-empty properties map: the placeholder stands where
\* properties were missing or empty, and the schemas that had properties are
\* as they were.
C25_ObjectSchemasHaveProperties ==
    toolsOut.called =>
        /\ Len(toolsOut.tools) = Len(toolsIn)
        /\ \A i \in 1..Len(toolsIn) :
              IF "parameters" \in DOMAIN toolsIn[i].function
              THEN /\ ObjectsHaveProperties(toolsOut.tools[i].function.parameters)
                   /\ toolsOut.tools[i].function.parameters
                         = Filled(toolsIn[i].function.parameters)
              ELSE toolsOut.tools[i] = toolsIn[i]

(***************************************************************************)
(* Properties of MetaChain.run: a tool function that raises.               *)
(***************************************************************************)
\* the body of the for loop has just called a function of the agent whose
\* body raises
RaisingToolCalled ==
    /\ rpc = "tools"
    /\ Len(invoked') = Len(invoked) + 1
    /\ agent.functions[invoked'[Len(invoked')].fn].raises

\* C26: when a matched tool function raises while run processes the tool
\* calls of a message, the exception leaves run: no ToolResult is added for
\* the call, no later tool call is invoked and run returns no Result.
C26_ToolExceptionLeavesRun ==
    /\ [][RaisingToolCalled
            => /\ rpc' = "raised"
               /\ runExc' = "ToolError"
               /\ toolResults' = toolResults
               /\ runResult' = Null]_vars
    /\ [][rpc = "raised"
            => UNCHANGED <<rpc, runExc, invoked, toolResults, runResult>>]_vars

\* C26 witness: the first of two tool calls matched a function that raised;
\* run ended with the exception, one invocation and no tool result.
C26_Witness ==
    /\ rpc = "raised"
    /\ runExc = "ToolError"
    /\ Len(ToolCallsOf(response)) = 2
    /\ toolIdx = 1
    /\ Len(invoked) = 1
    /\ toolResults = <<>>
    /\ runResult = Null

(***************************************************************************)
(* Properties of get_chat_completion: the caller's data.                   *)
(***************************************************************************)
\* get_chat_completion is called and gets as far as its request or its
\* exception
DispatchCalled == dpc = "idle" /\ dpc' # "idle"

\* C27: get_chat_completion leaves the caller's data unchanged: after a
\* call, in native or textual mode and for any model name, the history list
\* and every message of it (content and sender) are as before the call, and
\* so are the agent's examples; two dispatches over the same history for
\* the same model therefore send the same request.
C27_CallerDataUnchanged ==
    /\ [][DispatchCalled => history' = history /\ agent' = agent]_vars
    /\ [](\A i, j \in 1..Len(request) :
            request[i].model = request[j].model => request[i] = request[j])

(***************************************************************************)
(* Properties of CollaborationService.                                     *)
(***************************************************************************)
\* no coroutine is suspended at an await
Quiescent == \A t \in 1..Len(tasks) : tasks[t].pc \in {"done", "failed"}

\* C30: under every interleaving of join_session, leave_session and
\* broadcast_changes coroutines on one document id, join_session completes
\* with its websocket a participant of the session stored under the
\* document id, no operation ends with an exception because the session or
\* the participant set changed under it, and whenever no operation is in
\* progress every stored session has at least one participant.
C30_SessionsConsistentUnderInterleaving ==
    /\ [][\A t \in 1..Len(tasks) :
            (tasks[t].op = "join" /\ tasks[t].pc = "accept"
             /\ tasks'[t].pc # "accept")
                => /\ tasks'[t].pc = "done"
                   /\ Doc \in DOMAIN sessions'
                   /\ tasks[t].ws \in participants'[sessions'[Doc]]]_vars
    /\ [](\A t \in 1..Len(tasks) : tasks[t].exc = "none")
    /\ [](Quiescent =>
            \A d \in DOMAIN sessions : participants[sessions[d]] # {})
====
